---- MODULE Spec2Model ----
(***************************************************************************)
(* A state-machine model of the apg-lib parser (src/src/parser.js) and of  *)
(* the AST builder it drives (src/src/ast.js).                             *)
(*                                                                         *)
(* The recursive opcode evaluator is modelled with an explicit call stack: *)
(* every call of opExecute is a frame, every operator function an action   *)
(* that runs the function up to its next call of opExecute or to its end.  *)
(* JavaScript indices are kept 0-based as in the source; the sequence that *)
(* stands for a JavaScript array holds element i at position i + 1.        *)
(***************************************************************************)
EXTENDS Integers, Sequences, FiniteSets

(***************************************************************************)
(* identifiers.js: operator types and parser states.                       *)
(***************************************************************************)
ALT == 1
CAT == 2
REP == 3
RNM == 4
UDT == 5
AND == 6
NOT == 7
TRG == 8
TLS == 9
TBS == 10
BKR == 11
BKA == 12
BKN == 13
ACTIVE == 20
MATCH == 21
EMPTY == 22
NOMATCH == 23
SEM_PRE == 30
SEM_POST == 31
SEM_OK == 32
SEM_SKIP == 33

\* JavaScript's Infinity (REP's max, the default caps): larger than any count
\* a bounded parse reaches.
Infinity == 1000000
\* What reading past either end of a JavaScript array yields (undefined); it
\* equals no character code.  Also stands for null in the AST records.
Undefined == -1
\* An element of an input array that is not a number (the string "b", say):
\* it is in no character range and equals no character code, only itself.
NonNumber == -2

(***************************************************************************)
(* Bounds of the model.                                                    *)
(***************************************************************************)
\* Longest enumerated input string.
MaxLen == 3

(***************************************************************************)
(* Grammar objects.  An opcode is a record; fields an operator type does   *)
(* not have are left at their default.                                     *)
(***************************************************************************)
Op0 == [type |-> 0, children |-> <<>>, min |-> 0, max |-> 0, index |-> 0,
        string |-> <<>>, insensitive |-> FALSE]
OpALT(ch) == [Op0 EXCEPT !.type = ALT, !.children = ch]
OpCAT(ch) == [Op0 EXCEPT !.type = CAT, !.children = ch]
OpREP(mn, mx) == [Op0 EXCEPT !.type = REP, !.min = mn, !.max = mx]
OpRNM(r) == [Op0 EXCEPT !.type = RNM, !.index = r]
OpUDT(u) == [Op0 EXCEPT !.type = UDT, !.index = u]
OpAND == [Op0 EXCEPT !.type = AND]
OpNOT == [Op0 EXCEPT !.type = NOT]
OpBKA == [Op0 EXCEPT !.type = BKA]
OpBKN == [Op0 EXCEPT !.type = BKN]
OpTRG(mn, mx) == [Op0 EXCEPT !.type = TRG, !.min = mn, !.max = mx]
OpTLS(s) == [Op0 EXCEPT !.type = TLS, !.string = s]
OpTBS(s) == [Op0 EXCEPT !.type = TBS, !.string = s]
OpBKR(r, ins) == [Op0 EXCEPT !.type = BKR, !.index = r, !.insensitive = ins]

\* rule: its opcode list and whether some BKR refers to it
Rule(ops, bkr) == [opcodes |-> ops, isBkr |-> bkr]

\* A parse scenario: the grammar object (rules, number of UDTs), the parser
\* object's callbacks (rules that have a syntax callback), the attached AST
\* object (ast: whether one is attached; nodes: the rules selected as nodes),
\* and the characters the inputs are drawn from, with extra sample inputs.
Scenario(rules, nudts, cbs, hasAst, nodes, alphabet, samples) ==
  [rules |-> rules, udts |-> nudts, callbacks |-> cbs, ast |-> hasAst,
   nodes |-> nodes, alphabet |-> alphabet, samples |-> samples]

\* S = 2*3"a"
GRep == Scenario(<< Rule(<<OpREP(2, 3), OpTLS(<<97>>)>>, FALSE) >>,
                 0, {}, FALSE, {}, {97, 65}, {<<97, 97, 97>>, <<97, 65, 97, 97>>})
\* S = "ab" / %s"ac" / "a"
GAlt == Scenario(<< Rule(<<OpALT(<<1, 2, 3>>), OpTLS(<<97, 98>>), OpTBS(<<97, 99>>),
                           OpTLS(<<97>>)>>, FALSE) >>,
                 0, {}, FALSE, {}, {97, 98, 99}, {})
\* S = (&"a" "ab") / (!"b" %d97-99)
GLookAhead ==
  Scenario(<< Rule(<<OpALT(<<1, 5>>), OpCAT(<<2, 4>>), OpAND, OpTLS(<<97>>),
                     OpTLS(<<97, 98>>), OpCAT(<<6, 8>>), OpNOT, OpTLS(<<98>>),
                     OpTRG(97, 99)>>, FALSE) >>,
           0, {}, FALSE, {}, {97, 98, 99}, {})
\* S = 1*("a" / "") *"b"
GRepEmpty ==
  Scenario(<< Rule(<<OpCAT(<<1, 5>>), OpREP(1, Infinity), OpALT(<<3, 4>>),
                     OpTLS(<<97>>), OpTLS(<<>>), OpREP(0, Infinity), OpTLS(<<98>>)>>,
                   FALSE) >>,
           0, {}, FALSE, {}, {97, 98}, {})
\* S = A (\%sA / \A) ; A = "x" / "y"
GBkr ==
  Scenario(<< Rule(<<OpCAT(<<1, 2>>), OpRNM(1), OpALT(<<3, 4>>), OpBKR(1, FALSE),
                     OpBKR(1, TRUE)>>, FALSE),
              Rule(<<OpALT(<<1, 2>>), OpTLS(<<120>>), OpTLS(<<121>>)>>, TRUE) >>,
           0, {}, FALSE, {}, {120, 121, 88}, {})
\* S = A B \A ; B = A "b" \A ; A = "x" / "y"   (parser.js, setUniversalMode)
GScope ==
  Scenario(<< Rule(<<OpCAT(<<1, 2, 3>>), OpRNM(2), OpRNM(1), OpBKR(2, TRUE)>>, FALSE),
              Rule(<<OpCAT(<<1, 2, 3>>), OpRNM(2), OpTLS(<<98>>), OpBKR(2, TRUE)>>, FALSE),
              Rule(<<OpALT(<<1, 2>>), OpTLS(<<120>>), OpTLS(<<121>>)>>, TRUE) >>,
           0, {}, FALSE, {}, {120, 121, 98},
           {<<120, 121, 98, 121, 120>>, <<120, 121, 98, 121, 121>>})
\* S = (A "b") / (A "c") ; A = *"a" ; AST nodes S and A
GAstRollback ==
  Scenario(<< Rule(<<OpALT(<<1, 4>>), OpCAT(<<2, 3>>), OpRNM(1), OpTLS(<<98>>),
                     OpCAT(<<5, 6>>), OpRNM(1), OpTLS(<<99>>)>>, FALSE),
              Rule(<<OpREP(0, Infinity), OpTLS(<<97>>)>>, FALSE) >>,
           0, {}, TRUE, {0, 1}, {97, 98, 99}, {})
\* S = 0*2(A / B) ; A = B "b" ; B = "a" ; syntax callback on A ; AST node B
GCallback ==
  Scenario(<< Rule(<<OpREP(0, 2), OpALT(<<2, 3>>), OpRNM(1), OpRNM(2)>>, FALSE),
              Rule(<<OpCAT(<<1, 2>>), OpRNM(2), OpTLS(<<98>>)>>, FALSE),
              Rule(<<OpTLS(<<97>>)>>, FALSE) >>,
           0, {1}, TRUE, {2}, {97, 98}, {})
\* S = A / "" ; A = "a" ; syntax callback on A ; AST nodes S and A ; A back-referenced
GCallbackAst ==
  Scenario(<< Rule(<<OpALT(<<1, 2>>), OpRNM(1), OpTLS(<<>>)>>, FALSE),
              Rule(<<OpTLS(<<97>>)>>, TRUE) >>,
           0, {1}, TRUE, {0, 1}, {97}, {})
\* S = &(A "b") !(A A) A \A ; A = "a" / "b" ; AST nodes S and A
GLookRules ==
  Scenario(<< Rule(<<OpCAT(<<1, 5, 9, 10>>), OpAND, OpCAT(<<3, 4>>), OpRNM(1),
                     OpTLS(<<98>>), OpNOT, OpCAT(<<7, 8>>), OpRNM(1), OpRNM(1),
                     OpRNM(1), OpBKR(1, TRUE)>>, FALSE),
              Rule(<<OpALT(<<1, 2>>), OpTLS(<<97>>), OpTLS(<<98>>)>>, TRUE) >>,
           0, {}, TRUE, {0, 1}, {97, 98}, {})
\* S = ("a" &&%d97) / ("b" &&%s"b") / ("c" &&("c" "c"))
GBehindA ==
  Scenario(<< Rule(<<OpALT(<<1, 5, 9>>),
                     OpCAT(<<2, 3>>), OpTLS(<<97>>), OpBKA, OpTRG(97, 97),
                     OpCAT(<<6, 7>>), OpTLS(<<98>>), OpBKA, OpTBS(<<98>>),
                     OpCAT(<<10, 11>>), OpTLS(<<99>>), OpBKA, OpCAT(<<13, 14>>),
                     OpTLS(<<99>>), OpTLS(<<99>>)>>, FALSE) >>,
           0, {}, TRUE, {0}, {97, 98, 99}, {})
\* S = ("a" !!*"a") / ("b" !!"b") / ("c" &&"" !!(!"") &&(&"c") "c")
GBehindB ==
  Scenario(<< Rule(<<OpALT(<<1, 6, 10>>),
                     OpCAT(<<2, 3>>), OpTLS(<<97>>), OpBKN, OpREP(0, Infinity), OpTLS(<<97>>),
                     OpCAT(<<7, 8>>), OpTLS(<<98>>), OpBKN, OpTLS(<<98>>),
                     OpCAT(<<11, 12, 14, 17, 20>>), OpTLS(<<99>>),
                     OpBKA, OpTLS(<<>>),
                     OpBKN, OpNOT, OpTLS(<<>>),
                     OpBKA, OpAND, OpTLS(<<99>>),
                     OpTLS(<<99>>)>>, FALSE) >>,
           0, {}, FALSE, {}, {97, 98, 99}, {})
\* S = (&&\A / "") A (!!\A / "") ; A = "x" / ""
GBehindBkr ==
  Scenario(<< Rule(<<OpCAT(<<1, 5, 6>>),
                     OpALT(<<2, 4>>), OpBKA, OpBKR(1, TRUE), OpTLS(<<>>),
                     OpRNM(1),
                     OpALT(<<7, 9>>), OpBKN, OpBKR(1, FALSE), OpTLS(<<>>)>>, FALSE),
              Rule(<<OpALT(<<1, 2>>), OpTLS(<<120>>), OpTLS(<<>>)>>, TRUE) >>,
           0, {}, FALSE, {}, {120, 121}, {})
\* S = "a" &&C (!!C / "") ; C = "a" ; syntax callback on C ; AST node C
GBehindCallback ==
  Scenario(<< Rule(<<OpCAT(<<1, 2, 4>>), OpTLS(<<97>>), OpBKA, OpRNM(1),
                     OpALT(<<5, 7>>), OpBKN, OpRNM(1), OpTLS(<<>>)>>, FALSE),
              Rule(<<OpTLS(<<97>>)>>, FALSE) >>,
           0, {1}, TRUE, {1}, {97}, {})
\* S = u_x "a" : a grammar with a user-defined terminal
GUdt ==
  Scenario(<< Rule(<<OpCAT(<<1, 2>>), OpUDT(0), OpTLS(<<97>>)>>, FALSE) >>,
           1, {}, FALSE, {}, {97}, {})
\* the same grammar with a callback attached for u_x (callbacks are
\* numbered rules first, then UDTs)
GUdtCallback ==
  Scenario(<< Rule(<<OpCAT(<<1, 2>>), OpUDT(0), OpTLS(<<97>>)>>, FALSE) >>,
           1, {1}, FALSE, {}, {97}, {})

\* S = A A ; A = B ; B = "a" ; AST nodes A and B
GTranslate ==
  Scenario(<< Rule(<<OpCAT(<<1, 2>>), OpRNM(1), OpRNM(1)>>, FALSE),
              Rule(<<OpRNM(2)>>, FALSE),
              Rule(<<OpTLS(<<97>>)>>, FALSE) >>,
           0, {}, TRUE, {1, 2}, {97}, {})

\* S = (\A / "") A \%sA ; A = "x" / ""
GBkrEmpty ==
  Scenario(<< Rule(<<OpCAT(<<1, 4, 5>>), OpALT(<<2, 3>>), OpBKR(1, TRUE), OpTLS(<<>>),
                     OpRNM(1), OpBKR(1, FALSE)>>, FALSE),
              Rule(<<OpALT(<<1, 2>>), OpTLS(<<120>>), OpTLS(<<>>)>>, TRUE) >>,
           0, {}, FALSE, {}, {120, 88}, {})

\* S = "AbC" / (%d65 "") / ""
GTls ==
  Scenario(<< Rule(<<OpALT(<<1, 2, 5>>), OpTLS(<<97, 98, 99>>), OpCAT(<<3, 4>>),
                     OpTBS(<<65>>), OpTLS(<<>>), OpTLS(<<>>)>>, FALSE) >>,
           0, {}, FALSE, {}, {97, 98, 99, 65, 66, 67}, {})

\* S = (A "b") / \A ; A = "x" / "y"
GBacktrack ==
  Scenario(<< Rule(<<OpALT(<<1, 4>>), OpCAT(<<2, 3>>), OpRNM(1), OpTLS(<<98>>),
                     OpBKR(1, TRUE)>>, FALSE),
              Rule(<<OpALT(<<1, 2>>), OpTLS(<<120>>), OpTLS(<<121>>)>>, TRUE) >>,
           0, {}, FALSE, {}, {120, 98}, {})

\* S = &&X ; X = Y ; Y = "a" ; syntax callbacks on X and Y
GBehindNested ==
  Scenario(<< Rule(<<OpBKA, OpRNM(1)>>, FALSE),
              Rule(<<OpRNM(2)>>, FALSE),
              Rule(<<OpTLS(<<97>>)>>, FALSE) >>,
           0, {1, 2}, FALSE, {}, {97}, {})

Scenarios == << GRep, GAlt, GLookAhead, GRepEmpty, GBkr, GScope, GAstRollback,
                GCallback, GCallbackAst, GLookRules, GBehindA, GBehindB,
                GBehindBkr, GBehindCallback, GUdt, GBkrEmpty, GUdtCallback,
                GTranslate, GTls, GBacktrack, GBehindNested >>

\* what is passed for the grammar object when it is not one
BadGrammar == 0

\* all strings over alphabet of length at most n
RECURSIVE Strings(_, _)
Strings(alphabet, n) ==
  IF n = 0 THEN {<<>>}
  ELSE LET shorter == Strings(alphabet, n - 1)
       IN  shorter \cup {Append(s, c) : s \in shorter, c \in alphabet}

\* arrays that are not arrays of character codes
NonNumberInputs == {<<NonNumber, 97>>, <<97, NonNumber>>}

Inputs(g) ==
  IF g = BadGrammar THEN {<<97>>}
  ELSE Strings(Scenarios[g].alphabet, MaxLen) \cup Scenarios[g].samples
         \cup NonNumberInputs

\* The startRule argument: a number, a string (index: the rule that has the
\* name, Undefined when none has) or a value of another type.
StartRules(n) ==
  {[type |-> "number", index |-> i] : i \in {-1, 0, n}} \cup
  {[type |-> "string", index |-> i] : i \in {0, Undefined}} \cup
  {[type |-> "object", index |-> Undefined]}


\* What a syntax callback may do to sysData: leave it alone, or set the state
\* (0 stands for a value that is no parser state) and the phrase length.
MaxCallbackLength == 2
CallbackResults ==
  {[set |-> FALSE, state |-> ACTIVE, phraseLength |-> 0]} \cup
  {[set |-> TRUE, state |-> s, phraseLength |-> n] :
     s \in {ACTIVE, MATCH, EMPTY, NOMATCH, 0}, n \in -1 .. MaxCallbackLength}

(***************************************************************************)
(* The parser object's state (the closure variables of parser.js), the     *)
(* sysData object of the running parse, the call stack of opExecute, the   *)
(* attached AST object and the Result of the last parse.  For stating      *)
(* properties, inputRest holds the characters of the input array that      *)
(* follow the window: initializeInputChars keeps the slice `chars` only.   *)
(***************************************************************************)
VARIABLES phase, error, parentFrameMode, limitTreeDepth, limitNodeHits,
          grammar, chars, opcodes, lookAround, treeDepth, maxTreeDepth,
          nodeHits, maxMatched, sysData, calls, ast, result,
          inputRest, translation, trace, traceCalls, traceLog, stats,
          statsCalls, evaluation, previousCall

\* what the parse calls and the configuration calls leave alone
traceVars == <<trace, traceCalls, traceLog>>
statsVars == <<stats, statsCalls>>
aux == <<translation, trace, traceCalls, traceLog, stats, statsCalls,
         evaluation, previousCall>>
\* the variables of the parser object and of an AST object
baseVars == <<phase, error, parentFrameMode, limitTreeDepth, limitNodeHits,
              grammar, chars, opcodes, lookAround, treeDepth, maxTreeDepth,
              nodeHits, maxMatched, sysData, calls, ast, result, inputRest,
              translation, previousCall>>
coreVars == <<baseVars, evaluation>>
\* what the calls of a trace object leave alone
parserVars == <<coreVars, stats, statsCalls>>

vars == <<phase, error, parentFrameMode, limitTreeDepth, limitNodeHits,
          grammar, chars, opcodes, lookAround, treeDepth, maxTreeDepth,
          nodeHits, maxMatched, sysData, calls, ast, result, inputRest,
          translation, trace, traceCalls, traceLog, stats, statsCalls,
          evaluation, previousCall>>

\* the tables of the grammar object in use
rules == Scenarios[grammar].rules
udts == Scenarios[grammar].udts
ruleCallbacks == Scenarios[grammar].callbacks

\* opcodes: null, the one-opcode table privateParse makes for the start rule,
\* or (r >= 0) the opcode list of rule r
NullOpcodes == -2
StartOpcodes == -1
startRule == 0
\* the one-opcode table privateParse makes for the start rule index -1
NegativeStartOpcodes == -3
OpcodeTable(t) ==
  IF t = StartOpcodes THEN <<OpRNM(startRule)>>
  ELSE IF t = NegativeStartOpcodes THEN <<OpRNM(-1)>>
  ELSE rules[t + 1].opcodes

\* chars[i], undefined outside the array
Char(i) == IF i >= 0 /\ i < Len(chars) THEN chars[i + 1] ELSE Undefined

Min(S) == CHOOSE x \in S : \A y \in S : x <= y

\* an entry of a back-reference frame: null, or {phraseIndex, phraseLength}
NullRef == [set |-> FALSE, phraseIndex |-> 0, phraseLength |-> 0]
Ref(i, n) == [set |-> TRUE, phraseIndex |-> i, phraseLength |-> n]
BkrRules(g) == {r \in 0 .. Len(Scenarios[g].rules) - 1 : Scenarios[g].rules[r + 1].isBkr}
backrefInit == [r \in BkrRules(grammar) |-> NullRef]

NoSysData == [state |-> ACTIVE, phraseLength |-> 0, matchedLength |-> 0,
              lookBehind |-> FALSE, backrefFrame |-> <<>>, success |-> FALSE]
systemData == [NoSysData EXCEPT !.backrefFrame = backrefInit]
refresh(sd) == [sd EXCEPT !.state = ACTIVE, !.phraseLength = 0, !.matchedLength = 0]

lookAroundValue == IF Len(lookAround) > 0 THEN lookAround[Len(lookAround)] ELSE -1
inLookAround == Len(lookAround) > 0
inLookBehind == Len(lookAround) > 0 /\ lookAround[Len(lookAround)] \in {BKA, BKN}

(***************************************************************************)
(* ast.js                                                                  *)
(***************************************************************************)
NoAst == [attached |-> FALSE, records |-> <<>>, stack |-> <<>>, nodes |-> {}]
astInit(g) == [attached |-> TRUE, records |-> <<>>, stack |-> <<>>,
               nodes |-> Scenarios[g].nodes]
ruleDefined(a, index) == index \in a.nodes
getLength(a) == Len(a.records)
\* Array.length = n: cut, or pad with undefined
Resize(s, n) == [i \in 1 .. n |-> IF i <= Len(s) THEN s[i] ELSE Undefined]
\* a variant of setLength that leaves the working stack as it is
setLengthRecords(a, length) == [a EXCEPT !.records = Resize(a.records, length)]
setLength(a, length) ==
  LET recs == Resize(a.records, length)
  IN  [a EXCEPT !.records = recs,
                !.stack = IF length > 0 THEN Resize(a.stack, recs[length].stack)
                          ELSE <<>>]
down(a, callbackIndex) ==
  LET thisIndex == Len(a.records)
      stk == Append(a.stack, thisIndex)
  IN  [a EXCEPT !.stack = stk,
                !.records = Append(a.records,
                   [state |-> SEM_PRE, callbackIndex |-> callbackIndex,
                    thisIndex |-> thisIndex, thatIndex |-> Undefined,
                    phraseIndex |-> Undefined, phraseLength |-> Undefined,
                    stack |-> Len(stk)])]
\* up() fails (TypeError) when the working stack holds no record index
canUp(a) == Len(a.stack) > 0 /\ a.stack[Len(a.stack)] # Undefined
\* a variant of up that does not back-patch the down record
upOnly(a, callbackIndex, phraseIndex, phraseLength) ==
  LET thisIndex == Len(a.records)
      thatIndex == a.stack[Len(a.stack)]
  IN  [a EXCEPT !.stack = SubSeq(a.stack, 1, Len(a.stack) - 1),
                !.records = Append(a.records,
                   [state |-> SEM_POST, callbackIndex |-> callbackIndex,
                    thisIndex |-> thisIndex, thatIndex |-> thatIndex,
                    phraseIndex |-> phraseIndex, phraseLength |-> phraseLength,
                    stack |-> Len(a.stack) - 1])]
up(a, callbackIndex, phraseIndex, phraseLength) ==
  LET thisIndex == Len(a.records)
      thatIndex == a.stack[Len(a.stack)]
      stk == SubSeq(a.stack, 1, Len(a.stack) - 1)
      recs == Append(a.records,
                 [state |-> SEM_POST, callbackIndex |-> callbackIndex,
                  thisIndex |-> thisIndex, thatIndex |-> thatIndex,
                  phraseIndex |-> phraseIndex, phraseLength |-> phraseLength,
                  stack |-> Len(stk)])
  IN  [a EXCEPT !.stack = stk,
                !.records = [recs EXCEPT ![thatIndex + 1].thatIndex = thisIndex,
                                         ![thatIndex + 1].phraseIndex = phraseIndex,
                                         ![thatIndex + 1].phraseLength = phraseLength]]


(***************************************************************************)
(* The call stack.  A frame is one call opExecute(opIndex, phraseIndex,    *)
(* sysData) with the local variables of the operator function it runs:     *)
(*   op            opcodes[opIndex]                                        *)
(*   sd            the object passed as sysData: the parse's sysData, or a *)
(*                 sysDataCopy of it ("copy")                              *)
(*   pc            "call" before opExecute's first statement, "body"       *)
(*                 before the operator function, "resume" when the         *)
(*                 function's call of opExecute returns, "exit" after the  *)
(*                 function                                                *)
(*   i, charIndex, matched, phrase, count, success, astLength, astDefined, *)
(*   notLookAround, saveFrame, savedOpcodes   the functions' locals        *)
(* and, for stating properties, what was the case when the call was made:  *)
(*   kids          the calls this call has made and what each returned     *)
(*   astIn, frameIn, lookIn   the AST, sysData.backrefFrame and the        *)
(*                 look-around stack at entry                              *)
(*   ends          phrase index + phrase length of every evaluation made   *)
(*                 within this call that has returned outside look-around  *)
(***************************************************************************)
Frame(table, opIndex, phraseIndex, sd, a, backrefFrame, look) ==
  [op |-> OpcodeTable(table)[opIndex + 1], opIndex |-> opIndex,
   phraseIndex |-> phraseIndex, sd |-> sd, pc |-> "call",
   i |-> 0, charIndex |-> 0, matched |-> 0, phrase |-> 0, count |-> 0,
   success |-> TRUE, astLength |-> 0, astDefined |-> FALSE,
   notLookAround |-> FALSE, saveFrame |-> backrefFrame,
   savedOpcodes |-> NullOpcodes,
   kids |-> <<>>, astIn |-> a, frameIn |-> backrefFrame, lookIn |-> look,
   ends |-> {}]

\* ast.translate(): i is the loop index; calls lists the callback invocations
\* made (record index, the phase passed, the value returned), for stating
\* properties
NoTranslation == [i |-> 0, calls |-> <<>>]

\* a trace object as constructed (trace.js lines 14-27, 163-167): lines is
\* the sparse array of records, by list index; itemIndex and maxListSize are
\* the variables of its circular buffer
maxLinesDefault == 5000
NoTrace == [state |-> "new", operators |-> {}, rules |-> {}, error |-> "",
            operatorFilter |-> {}, ruleFilter |-> {}, maxLines |-> maxLinesDefault,
            maxListSize |-> 0, itemIndex |-> -1, lines |-> <<>>,
            totalRecords |-> 0, filteredRecords |-> 0, treeDepth |-> 0,
            lineStack |-> <<>>]

\* a statistics object as constructed (stats.js lines 12-17), and the
\* opExecute calls that drive it: the opcodes of the calls that have not
\* returned and the parser's nodeHits
Stat0 == [empty |-> 0, match |-> 0, nomatch |-> 0, total |-> 0]
NoStats == [state |-> "new", totals |-> Stat0, stats |-> <<>>, ruleStats |-> <<>>]
NoStatsCalls == [calls |-> <<>>, nodeHits |-> 0]

\* The grammar object of the parses whose callbacks call evaluateRule and
\* evaluateUdt: S = *(A / B) ; A = B "b" ; B = "a", and one UDT
EvalRules == GCallback.rules
EvalUdts == 1
\* the length of the input of those parses
EvalChars == 2
\* the opcode lists: privateParse's list for the start rule and the rules'
EvalTables == {StartOpcodes} \cup (0 .. Len(EvalRules) - 1)
EvalOpcodes(t) ==
  IF t = StartOpcodes THEN <<OpRNM(startRule)>> ELSE EvalRules[t + 1].opcodes
\* the rules' opcode lists of the grammar object as generated, the variable
\* opcodes, nodeHits and limitNodeHits, and the opcode list the
\* evaluateRule or evaluateUdt call in progress has pushed its opcode on
NoEvaluation ==
  [state |-> "idle", lists |-> [t \in EvalTables |-> EvalOpcodes(t)],
   opcodes |-> NullOpcodes, nodeHits |-> 0, limitNodeHits |-> Infinity,
   call |-> NullOpcodes]

Top == calls[Len(calls)]
SetTop(f) == [calls EXCEPT ![Len(calls)] = f]
\* the running function calls opExecute(opIndex, phraseIndex, sd) on `table`
\* and will resume in frame f; a, backrefFrame and look are the AST,
\* sysData.backrefFrame and the look-around stack at the call
Call(f, table, opIndex, phraseIndex, sd, a, backrefFrame, look) ==
  Append(SetTop([f EXCEPT !.pc = "resume"]),
         Frame(table, opIndex, phraseIndex, sd, a, backrefFrame, look))
Running == phase = "exec" /\ calls # <<>>
At(type, pcs) == Running /\ Top.op.type = type /\ Top.pc \in pcs

\* an Error is thrown: the JavaScript call stack unwinds to the caller of
\* parse; the parser object keeps whatever its variables held
Throw(msg) == phase' = "error" /\ error' = msg /\ calls' = <<>>

NoResult == [success |-> FALSE, state |-> ACTIVE, length |-> 0, matched |-> 0,
             maxMatched |-> 0, maxTreeDepth |-> 0, nodeHits |-> 0]

Init ==
  /\ phase = "idle"
  /\ error = ""
  /\ parentFrameMode = TRUE
  /\ limitTreeDepth = Infinity
  /\ limitNodeHits = Infinity
  /\ grammar = 1
  /\ chars = <<>>
  /\ inputRest = <<>>
  /\ translation = NoTranslation
  /\ trace = NoTrace
  /\ traceCalls = <<>>
  /\ traceLog = <<>>
  /\ stats = NoStats
  /\ statsCalls = NoStatsCalls
  /\ evaluation = NoEvaluation
  /\ previousCall = "other"
  /\ opcodes = NullOpcodes
  /\ lookAround = <<>>
  /\ treeDepth = 0
  /\ maxTreeDepth = 0
  /\ nodeHits = 0
  /\ maxMatched = 0
  /\ sysData = NoSysData
  /\ calls = <<>>
  /\ ast = NoAst
  /\ result = NoResult

\* The configuration calls are made between parse calls.  They change none
\* of the variables clear() resets and clear() changes none of theirs, so a
\* configuration call before a parse call and the clear() that begins the
\* parse call commute: the calls are taken after it, in phase "parse", where
\* the parser holds nothing of the previous call any more.

\* setUniversalMode(universalMode)
setUniversalMode(universalMode) ==
  /\ phase \in {"idle", "parse"}
  /\ parentFrameMode' = (IF universalMode = FALSE THEN TRUE ELSE FALSE)
  /\ UNCHANGED <<phase, error, limitTreeDepth, limitNodeHits, grammar, chars, inputRest, aux,
                 opcodes, lookAround, treeDepth, maxTreeDepth, nodeHits,
                 maxMatched, sysData, calls, ast, result>>

\* setMaxTreeDepth(depth) and setMaxNodeHits(depth) with a number that is an
\* integer or Infinity.  The limit is assigned before it is
\* tested: a call that throws ('must be integer > 0') has stored its limit.
MaxCap == 4
CapValues == 0 .. MaxCap \cup {Infinity}
setMaxTreeDepth(depth) ==
  /\ phase \in {"idle", "parse"}
  /\ limitTreeDepth' = depth
  /\ UNCHANGED <<phase, error, parentFrameMode, limitNodeHits, grammar, chars, inputRest, aux,
                 opcodes, lookAround, treeDepth, maxTreeDepth, nodeHits,
                 maxMatched, sysData, calls, ast, result>>
setMaxNodeHits(depth) ==
  /\ phase \in {"idle", "parse"}
  /\ limitNodeHits' = depth
  /\ UNCHANGED <<phase, error, parentFrameMode, limitTreeDepth, grammar, chars, inputRest, aux,
                 opcodes, lookAround, treeDepth, maxTreeDepth, nodeHits,
                 maxMatched, sysData, calls, ast, result>>

\* initializeInputChars(input, beg, len) with numeric beg and len: the error
\* it throws ("" when none)
initializeInputCharsError(input, beg, len) ==
  IF Len(input) > 0 /\ input[1] = NonNumber
  THEN "input string not an array of integers"
  ELSE IF beg < 0 \/ beg >= Len(input) THEN "input beginning index out of range"
  ELSE IF len < 0 \/ len > Len(input) - beg THEN "input length out of range"
  ELSE ""

\* clear(), the first statement of parse and of parseSubstring: a call of
\* either begins.  The caller has taken the Result or the Error of the
\* previous call and the AST object it had attached for it; sysData is a
\* local variable of privateParse.
\* how the call before this one ended (for stating properties): "aborted"
\* when it raised inside look-around below the start rule.  It is recorded
\* for the calls that parse one of ReuseGrammars.
Previous ==
  IF phase = "error" /\ lookAround # <<>> /\ treeDepth > 1 THEN "aborted"
  ELSE "other"
ReuseGrammars == {g \in 1 .. Len(Scenarios) : Scenarios[g] \in {GRep, GLookAhead}}

\* a variant of clear that leaves the look-around stack and the tree depth
clearKeep ==
  /\ phase \in {"idle", "done", "error"}
  /\ phase' = "parse"
  /\ error' = ""
  /\ result' = NoResult
  /\ sysData' = NoSysData
  /\ ast' = NoAst
  /\ grammar' = 1
  /\ chars' = <<>>
  /\ inputRest' = <<>>
  /\ translation' = NoTranslation
  /\ opcodes' = NullOpcodes
  /\ maxTreeDepth' = 0
  /\ nodeHits' = 0
  /\ maxMatched' = 0
  /\ previousCall' = Previous
  /\ UNCHANGED <<parentFrameMode, limitTreeDepth, limitNodeHits, calls, traceVars,
                 statsVars, evaluation, lookAround, treeDepth>>

clear ==
  /\ phase \in {"idle", "done", "error"}
  /\ phase' = "parse"
  /\ error' = ""
  /\ result' = NoResult
  /\ sysData' = NoSysData
  /\ ast' = NoAst
  /\ grammar' = 1
  /\ chars' = <<>>
  /\ inputRest' = <<>>
  /\ translation' = NoTranslation
  /\ opcodes' = NullOpcodes
  /\ lookAround' = <<>>
  /\ treeDepth' = 0
  /\ maxTreeDepth' = 0
  /\ nodeHits' = 0
  /\ maxMatched' = 0
  /\ previousCall' = Previous
  /\ UNCHANGED <<parentFrameMode, limitTreeDepth, limitNodeHits, calls, traceVars,
                 statsVars, evaluation>>

initializeGrammarError(g) == IF g = BadGrammar THEN "bad grammar object" ELSE ""

\* initializeStartRule(startRule) with n rules: the error thrown, or the
\* start rule index returned
initializeStartRule(start, n) ==
  IF start.type = "number"
  THEN IF start.index >= n
       THEN [error |-> "start rule index too large", start |-> Undefined]
       ELSE [error |-> "", start |-> start.index]
  ELSE IF start.type = "string"
  THEN IF start.index = Undefined
       THEN [error |-> "start rule name not recognized", start |-> Undefined]
       ELSE [error |-> "", start |-> start.index]
  ELSE [error |-> "type of start rule not recognized", start |-> Undefined]

\* initializeCallbacks(): the scenarios attach callbacks by valid names only
initializeCallbacksError(g) ==
  IF \E u \in 0 .. Scenarios[g].udts - 1 :
       Len(Scenarios[g].rules) + u \notin Scenarios[g].callbacks
  THEN "all UDT callbacks must be defined" ELSE ""

\* the errors the initialize functions throw for the arguments of the call
ArgumentErrors ==
  {"input string not an array of integers", "input beginning index out of range",
   "input length out of range", "bad grammar object", "start rule index too large",
   "start rule name not recognized", "type of start rule not recognized",
   "all UDT callbacks must be defined"}
\* the errors thrown before privateParse calls opExecute
SetupErrors == ArgumentErrors \cup {"ReferenceError: udt is not defined"}

\* The rest of a parse call: initializeInputChars(inputChars, beg, len), then
\* privateParse() up to its call opExecute(0, 0, sysData).  `g` stands for
\* the grammar object and for what the caller attached to the parser object
\* for it (callbacks, and a new AST object or none); trace and stats are not
\* attached.
beginParse(g, start, inputChars, beg, len) ==
  /\ phase = "parse"
  /\ LET inputError == initializeInputCharsError(inputChars, beg, len)
         grammarError == initializeGrammarError(g)
         s == initializeStartRule(start, Len(Scenarios[g].rules))
         callbacksError == initializeCallbacksError(g)
         table == IF s.start < 0 THEN NegativeStartOpcodes ELSE StartOpcodes
     IN
     IF inputError # ""
     THEN /\ Throw(inputError)
          /\ UNCHANGED <<grammar, chars, inputRest, ast, opcodes, sysData>>
     ELSE
     /\ chars' = SubSeq(inputChars, beg + 1, beg + len)
     /\ inputRest' = SubSeq(inputChars, beg + len + 1, Len(inputChars))
     /\ IF grammarError # ""
        THEN /\ Throw(grammarError)
             /\ UNCHANGED <<grammar, ast, opcodes, sysData>>
        ELSE
        /\ grammar' = g
        /\ IF s.error # ""
           THEN /\ Throw(s.error)
                /\ UNCHANGED <<ast, opcodes, sysData>>
           ELSE IF callbacksError # ""
           THEN /\ Throw(callbacksError)
                /\ UNCHANGED <<ast, opcodes, sysData>>
           ELSE
           /\ ast' = IF Scenarios[g].ast THEN astInit(g) ELSE NoAst
           /\ IF Scenarios[g].udts > 0
              THEN \* new systemData() -> backrefInit(): "udt" is not defined
                   /\ Throw("ReferenceError: udt is not defined")
                   /\ UNCHANGED <<opcodes, sysData>>
              ELSE /\ phase' = "exec"
                   /\ error' = ""
                   /\ sysData' = [NoSysData EXCEPT
                                    !.backrefFrame = [r \in BkrRules(g) |-> NullRef]]
                   /\ opcodes' = table
                   /\ calls' = << Frame(table, 0, 0, "sysData", ast',
                                        sysData'.backrefFrame, <<>>) >>
  /\ previousCall' = IF g \in ReuseGrammars THEN previousCall ELSE "other"
  /\ UNCHANGED <<parentFrameMode, limitTreeDepth, limitNodeHits, lookAround,
                 treeDepth, maxTreeDepth, nodeHits, maxMatched, result,
                 translation, traceVars, statsVars, evaluation>>

\* parse(grammar, startRule, inputChars)
parse(g, start, inputChars) == beginParse(g, start, inputChars, 0, Len(inputChars))

\* parseSubstring(grammar, startRule, inputChars, inputIndex, inputLength)
parseSubstring(g, start, inputChars, inputIndex, inputLength) ==
  beginParse(g, start, inputChars, inputIndex, inputLength)

\* a variant of nodeHitsExceeded that stops the evaluation that reaches the limit
nodeHitsReached(hits, limit) == hits >= limit
\* opExecute's test of the node hits (line 1286), after the increment
nodeHitsExceeded(hits, limit) == hits > limit
\* and its test of the tree depth (lines 1290-1292), after the increment
treeDepthExceeded(depth, maxDepth, limit) == depth > maxDepth /\ depth > limit

\* opExecute, up to the operator function (lines 1282-1300)
opExecute ==
  /\ Running /\ Top.pc = "call"
  /\ nodeHits' = nodeHits + 1
  /\ IF nodeHitsExceeded(nodeHits + 1, limitNodeHits)
     THEN /\ Throw("parser: maximum number of node hits exceeded")
          /\ UNCHANGED <<treeDepth, maxTreeDepth, sysData>>
     ELSE /\ treeDepth' = treeDepth + 1
          /\ maxTreeDepth' = IF treeDepth + 1 > maxTreeDepth THEN treeDepth + 1
                             ELSE maxTreeDepth
          /\ IF treeDepthExceeded(treeDepth + 1, maxTreeDepth, limitTreeDepth)
             THEN /\ Throw("parser: maximum parse tree depth exceeded")
                  /\ UNCHANGED sysData
             ELSE IF Top.sd = "copy"
             THEN \* sysDataCopy() gives the copy no refresh()
                  /\ Throw("TypeError: sysData.refresh is not a function")
                  /\ UNCHANGED sysData
             ELSE /\ sysData' = refresh(sysData)
                  /\ calls' = SetTop([Top EXCEPT !.pc = "body"])
                  /\ UNCHANGED <<phase, error>>
  /\ UNCHANGED <<parentFrameMode, limitTreeDepth, limitNodeHits, grammar, chars, inputRest, aux,
                 opcodes, lookAround, maxMatched, ast, result>>

\* the value opExecute leaves in maxMatched (lines 1392-1394)
maxMatchedAfter(phraseIndex, sd) ==
  IF ~inLookAround /\ phraseIndex + sd.phraseLength > maxMatched
  THEN phraseIndex + sd.phraseLength ELSE maxMatched

\* opExecute, after the operator function (lines 1392-1404): the call returns
opExecuteReturn ==
  /\ Running /\ Top.pc = "exit"
  /\ maxMatched' = maxMatchedAfter(Top.phraseIndex, sysData)
  /\ treeDepth' = treeDepth - 1
  /\ calls' = IF Len(calls) = 1 THEN <<>>
              ELSE LET caller == calls[Len(calls) - 1]
                       kid == [opIndex |-> Top.opIndex, phraseIndex |-> Top.phraseIndex,
                               state |-> sysData.state,
                               phraseLength |-> sysData.phraseLength]
                       end == IF inLookAround THEN {}
                              ELSE {Top.phraseIndex + sysData.phraseLength}
                   IN  Append(SubSeq(calls, 1, Len(calls) - 2),
                              [caller EXCEPT !.kids = Append(@, kid),
                                             !.ends = @ \cup Top.ends \cup end])
  /\ UNCHANGED <<phase, error, parentFrameMode, limitTreeDepth, limitNodeHits,
                 grammar, chars, inputRest, aux, opcodes, lookAround, maxTreeDepth, nodeHits,
                 sysData, ast, result>>

\* a variant of success that does not compare the phrase with the window
successOfState(sd) == sd.state \in {EMPTY, MATCH}
\* Result.success (privateParse, the switch of lines 477-492)
success(sd) ==
  CASE sd.state = NOMATCH -> FALSE
    [] sd.state \in {EMPTY, MATCH} -> sd.phraseLength = Len(chars)
    [] OTHER -> sd.success

\* privateParse after opExecute(0, 0, sysData) has returned (lines 475-501)
privateParse ==
  /\ phase = "exec" /\ calls = <<>>
  /\ opcodes' = NullOpcodes
  /\ IF sysData.state = ACTIVE
     THEN /\ Throw("final state should never be 'ACTIVE'")
          /\ UNCHANGED <<sysData, result>>
     ELSE /\ phase' = "done"
          /\ sysData' = [sysData EXCEPT !.success = success(sysData)]
          /\ result' = [success |-> success(sysData), state |-> sysData.state,
                        length |-> Len(chars), matched |-> sysData.phraseLength,
                        maxMatched |-> maxMatched, maxTreeDepth |-> maxTreeDepth,
                        nodeHits |-> nodeHits]
          /\ UNCHANGED <<error, calls>>
  /\ UNCHANGED <<parentFrameMode, limitTreeDepth, limitNodeHits, grammar, chars, inputRest, aux,
                 lookAround, treeDepth, maxTreeDepth, nodeHits, maxMatched, ast>>


(***************************************************************************)
(* The terminal operators: what each does to sysData.                      *)
(***************************************************************************)
\* a variant of Fold that leaves every character code as it is
FoldNone(code) == code
\* code >= 65 && code <= 90 ? code + 32 : code
Fold(code) == IF code >= 65 /\ code <= 90 THEN code + 32 ELSE code

\* a variant of opTRG that stores no state when the character is out of range
opTRGNoState(op, phraseIndex, sd) ==
  IF phraseIndex < Len(chars)
     /\ op.min <= Char(phraseIndex) /\ Char(phraseIndex) <= op.max
  THEN [sd EXCEPT !.state = MATCH, !.phraseLength = 1, !.matchedLength = 1]
  ELSE sd
opTRG(op, phraseIndex, sd) ==
  IF phraseIndex < Len(chars)
     /\ op.min <= Char(phraseIndex) /\ Char(phraseIndex) <= op.max
  THEN [sd EXCEPT !.state = MATCH, !.phraseLength = 1, !.matchedLength = 1]
  ELSE [sd EXCEPT !.state = NOMATCH]

opTBS(op, phraseIndex, sd) ==
  LET len == Len(op.string)
      bad == {i \in 0 .. len - 1 : Char(phraseIndex + i) # op.string[i + 1]}
  IN  IF phraseIndex + len <= Len(chars)
      THEN IF bad # {}
           THEN [sd EXCEPT !.state = NOMATCH, !.matchedLength = Min(bad)]
           ELSE [sd EXCEPT !.state = MATCH, !.phraseLength = len, !.matchedLength = len]
      ELSE [sd EXCEPT !.state = NOMATCH]

opTLS(op, phraseIndex, sd) ==
  LET len == Len(op.string)
      bad == {i \in 0 .. len - 1 : Fold(Char(phraseIndex + i)) # op.string[i + 1]}
  IN  IF len = 0 THEN [sd EXCEPT !.state = EMPTY]
      ELSE IF phraseIndex + len <= Len(chars)
      THEN IF bad # {}
           THEN [sd EXCEPT !.state = NOMATCH, !.matchedLength = Min(bad)]
           ELSE [sd EXCEPT !.state = MATCH, !.phraseLength = len, !.matchedLength = len]
      ELSE [sd EXCEPT !.state = NOMATCH]

\* a variant of opBKR that compares without case folding whatever op.insensitive
opBKRSensitive(op, phraseIndex, sd) ==
  LET saved == sd.backrefFrame[op.index]
      lmIndex == saved.phraseIndex
      len == saved.phraseLength
      bad == {i \in 0 .. len - 1 : Char(phraseIndex + i) # Char(lmIndex + i)}
  IN  IF ~saved.set THEN [sd EXCEPT !.state = NOMATCH]
      ELSE IF len = 0 THEN [sd EXCEPT !.state = EMPTY]
      ELSE IF phraseIndex + len <= Len(chars)
      THEN IF bad # {}
           THEN [sd EXCEPT !.state = NOMATCH, !.matchedLength = Min(bad)]
           ELSE [sd EXCEPT !.state = MATCH, !.phraseLength = len, !.matchedLength = len]
      ELSE [sd EXCEPT !.state = NOMATCH]
opBKR(op, phraseIndex, sd) ==
  LET saved == sd.backrefFrame[op.index]
      lmIndex == saved.phraseIndex
      len == saved.phraseLength
      bad == {i \in 0 .. len - 1 :
                IF op.insensitive
                THEN Fold(Char(phraseIndex + i)) # Fold(Char(lmIndex + i))
                ELSE Char(phraseIndex + i) # Char(lmIndex + i)}
  IN  IF ~saved.set THEN [sd EXCEPT !.state = NOMATCH]
      ELSE IF len = 0 THEN [sd EXCEPT !.state = EMPTY]
      ELSE IF phraseIndex + len <= Len(chars)
      THEN IF bad # {}
           THEN [sd EXCEPT !.state = NOMATCH, !.matchedLength = Min(bad)]
           ELSE [sd EXCEPT !.state = MATCH, !.phraseLength = len, !.matchedLength = len]
      ELSE [sd EXCEPT !.state = NOMATCH]

\* The look-behind variants read charsFirst, which parser.js never declares:
\* evaluating it throws a ReferenceError.  `thrown` tells whether the
\* function gets that far; sysData is what it has stored by then.
opTRGBehind(op, phraseIndex, sd) ==
  [thrown |-> TRUE, sysData |-> [sd EXCEPT !.state = NOMATCH, !.phraseLength = 0]]
opTBSBehind(op, phraseIndex, sd) ==
  [thrown |-> TRUE, sysData |-> [sd EXCEPT !.state = NOMATCH, !.phraseLength = 0]]
opTLSBehind(op, phraseIndex, sd) ==
  IF Len(op.string) = 0
  THEN [thrown |-> FALSE, sysData |-> [sd EXCEPT !.state = EMPTY, !.phraseLength = 0]]
  ELSE [thrown |-> TRUE, sysData |-> [sd EXCEPT !.state = NOMATCH, !.phraseLength = 0]]
opBKRBehind(op, phraseIndex, sd) ==
  LET saved == sd.backrefFrame[op.index]
  IN  IF ~saved.set
      THEN [thrown |-> FALSE, sysData |-> [sd EXCEPT !.state = NOMATCH, !.phraseLength = 0]]
      ELSE IF saved.phraseLength = 0
      THEN [thrown |-> FALSE, sysData |-> [sd EXCEPT !.state = EMPTY, !.phraseLength = 0]]
      ELSE [thrown |-> TRUE, sysData |-> [sd EXCEPT !.state = NOMATCH, !.phraseLength = 0]]

Exit(f) == SetTop([f EXCEPT !.pc = "exit"])

\* opExecute's switch for a terminal in forward mode (lines 1369-1380)
terminal(op, phraseIndex, sd) ==
  CASE op.type = TRG -> opTRG(op, phraseIndex, sd)
    [] op.type = TBS -> opTBS(op, phraseIndex, sd)
    [] op.type = TLS -> opTLS(op, phraseIndex, sd)
    [] op.type = BKR -> opBKR(op, phraseIndex, sd)
\* and in look-behind mode (lines 1324-1335)
terminalBehind(op, phraseIndex, sd) ==
  CASE op.type = TRG -> opTRGBehind(op, phraseIndex, sd)
    [] op.type = TBS -> opTBSBehind(op, phraseIndex, sd)
    [] op.type = TLS -> opTLSBehind(op, phraseIndex, sd)
    [] op.type = BKR -> opBKRBehind(op, phraseIndex, sd)

execTerminal(type) ==
  /\ At(type, {"body"}) /\ ~inLookBehind
  /\ sysData' = terminal(Top.op, Top.phraseIndex, sysData)
  /\ calls' = Exit(Top)
  /\ UNCHANGED <<phase, error, parentFrameMode, limitTreeDepth, limitNodeHits,
                 grammar, chars, inputRest, aux, opcodes, lookAround, treeDepth, maxTreeDepth,
                 nodeHits, maxMatched, ast, result>>

execTerminalBehind(type) ==
  /\ At(type, {"body"}) /\ inLookBehind
  /\ LET r == terminalBehind(Top.op, Top.phraseIndex, sysData)
     IN  /\ sysData' = r.sysData
         /\ IF r.thrown
            THEN Throw("ReferenceError: charsFirst is not defined")
            ELSE calls' = Exit(Top) /\ UNCHANGED <<phase, error>>
  /\ UNCHANGED <<parentFrameMode, limitTreeDepth, limitNodeHits,
                 grammar, chars, inputRest, aux, opcodes, lookAround, treeDepth, maxTreeDepth,
                 nodeHits, maxMatched, ast, result>>

execTRG == execTerminal(TRG)
execTBS == execTerminal(TBS)
execTLS == execTerminal(TLS)
execBKR == execTerminal(BKR)
execTRGBehind == execTerminalBehind(TRG)
execTBSBehind == execTerminalBehind(TBS)
execTLSBehind == execTerminalBehind(TLS)
execBKRBehind == execTerminalBehind(BKR)


(***************************************************************************)
(* ALT, CAT, REP                                                           *)
(***************************************************************************)
\* a variant of altBreak that leaves the loop on MATCH only
altBreakOnMatch(state) == state = MATCH
\* opALT's test after a child has returned (line 511): leave the loop?
altBreak(state) == state # NOMATCH

opALT ==
  /\ At(ALT, {"body", "resume"})
  /\ LET f == Top
         i == IF f.pc = "body" THEN 0 ELSE f.i + 1
     IN  IF (f.pc = "resume" /\ altBreak(sysData.state)) \/ ~(i < Len(f.op.children))
         THEN calls' = Exit(f)
         ELSE calls' = Call([f EXCEPT !.i = i], opcodes, f.op.children[i + 1],
                            f.phraseIndex, f.sd, ast, sysData.backrefFrame, lookAround)
  /\ UNCHANGED <<phase, error, parentFrameMode, limitTreeDepth, limitNodeHits,
                 grammar, chars, inputRest, aux, opcodes, lookAround, treeDepth, maxTreeDepth,
                 nodeHits, maxMatched, sysData, ast, result>>

\* a variant of catResult that reports a success of no characters as MATCH
catResultMatch(success_, catMatched, sd) ==
  IF success_
  THEN [sd EXCEPT !.matchedLength = catMatched, !.state = MATCH,
                  !.phraseLength = catMatched]
  ELSE [sd EXCEPT !.matchedLength = catMatched, !.state = NOMATCH, !.phraseLength = 0]
\* opCAT after its loop (lines 541-551): the result it stores in sysData
catResult(success_, catMatched, sd) ==
  IF success_
  THEN [sd EXCEPT !.matchedLength = catMatched,
                  !.state = IF catMatched = 0 THEN EMPTY ELSE MATCH,
                  !.phraseLength = catMatched]
  ELSE [sd EXCEPT !.matchedLength = catMatched, !.state = NOMATCH, !.phraseLength = 0]
\* and the AST it leaves (lines 548-550)
catAst(success_, astLength, a) ==
  IF ~success_ /\ a.attached THEN setLength(a, astLength) ELSE a

opCAT ==
  /\ At(CAT, {"body", "resume"}) /\ ~inLookBehind
  /\ LET f == Top
         \* the loop body after opExecute (lines 532-539)
         g == IF f.pc = "body"
              THEN [f EXCEPT !.astLength = getLength(ast), !.success = TRUE,
                             !.charIndex = f.phraseIndex, !.matched = 0, !.i = 0]
              ELSE [f EXCEPT !.charIndex = @ + sysData.phraseLength,
                             !.matched = @ + sysData.phraseLength
                                           + (IF sysData.state = NOMATCH
                                              THEN sysData.matchedLength ELSE 0),
                             !.success = sysData.state # NOMATCH,
                             !.i = @ + 1]
     IN  IF g.success /\ g.i < Len(g.op.children)
         THEN /\ calls' = Call(g, opcodes, g.op.children[g.i + 1], g.charIndex,
                               g.sd, ast, sysData.backrefFrame, lookAround)
              /\ UNCHANGED <<sysData, ast>>
         ELSE /\ sysData' = catResult(g.success, g.matched, sysData)
              /\ ast' = catAst(g.success, g.astLength, ast)
              /\ calls' = Exit(g)
  /\ UNCHANGED <<phase, error, parentFrameMode, limitTreeDepth, limitNodeHits,
                 grammar, chars, inputRest, aux, opcodes, lookAround, treeDepth, maxTreeDepth,
                 nodeHits, maxMatched, result>>

\* opREP's test at the top of its loop (line 569): leave at the end of input
repAtEnd(repCharIndex) == repCharIndex >= Len(chars)
\* opREP's test after a counted repetition (line 588)
repMaxed(repCount, op) == repCount = op.max
\* a variant of repResult without the case of the empty child
repResultByCount(op, repCount, repPhrase, repMatched, sd) ==
  IF repCount >= op.min
  THEN [sd EXCEPT !.matchedLength = repMatched,
                  !.state = IF repPhrase = 0 THEN EMPTY ELSE MATCH,
                  !.phraseLength = repPhrase]
  ELSE [sd EXCEPT !.matchedLength = repMatched, !.state = NOMATCH, !.phraseLength = 0]
\* opREP after its loop (lines 593-607)
repResult(op, repCount, repPhrase, repMatched, sd) ==
  IF sd.state = EMPTY \/ repCount >= op.min
  THEN [sd EXCEPT !.matchedLength = repMatched,
                  !.state = IF repPhrase = 0 THEN EMPTY ELSE MATCH,
                  !.phraseLength = repPhrase]
  ELSE [sd EXCEPT !.matchedLength = repMatched, !.state = NOMATCH, !.phraseLength = 0]
repAst(op, repCount, astLength, sd, a) ==
  IF ~(sd.state = EMPTY \/ repCount >= op.min) /\ a.attached
  THEN setLength(a, astLength) ELSE a

opREP ==
  /\ At(REP, {"body", "resume"}) /\ ~inLookBehind
  /\ LET f == Top
         counted == f.pc = "resume" /\ sysData.state \notin {NOMATCH, EMPTY}
         \* the loop body after opExecute (lines 574-587)
         g == IF f.pc = "body"
              THEN [f EXCEPT !.charIndex = f.phraseIndex, !.matched = 0, !.phrase = 0,
                             !.count = 0, !.astLength = getLength(ast)]
              ELSE IF sysData.state = NOMATCH
              THEN [f EXCEPT !.matched = @ + sysData.matchedLength]
              ELSE IF sysData.state = EMPTY
              THEN f
              ELSE [f EXCEPT !.count = @ + 1, !.phrase = @ + sysData.phraseLength,
                             !.matched = @ + sysData.phraseLength,
                             !.charIndex = @ + sysData.phraseLength]
         break == \/ (f.pc = "resume" /\ ~counted)
                  \/ (counted /\ repMaxed(g.count, g.op))
                  \/ repAtEnd(g.charIndex)
     IN  IF ~break
         THEN /\ calls' = Call(g, opcodes, g.opIndex + 1, g.charIndex, g.sd,
                               ast, sysData.backrefFrame, lookAround)
              /\ UNCHANGED <<sysData, ast>>
         ELSE /\ sysData' = repResult(g.op, g.count, g.phrase, g.matched, sysData)
              /\ ast' = repAst(g.op, g.count, g.astLength, sysData, ast)
              /\ calls' = Exit(g)
  /\ UNCHANGED <<phase, error, parentFrameMode, limitTreeDepth, limitNodeHits,
                 grammar, chars, inputRest, aux, opcodes, lookAround, treeDepth, maxTreeDepth,
                 nodeHits, maxMatched, result>>


(***************************************************************************)
(* The syntactic predicates AND, NOT, BKA, BKN                             *)
(***************************************************************************)
\* the state each predicate returns for the state of its child (the switch
\* statements of opAND, opNOT, opBKA, opBKN); ACTIVE where the function
\* throws 'invalid state'
andState(state) ==
  CASE state = EMPTY -> EMPTY [] state = MATCH -> EMPTY [] state = NOMATCH -> NOMATCH
    [] OTHER -> ACTIVE
\* a variant of notState that maps the states as opAND does
notStateOfAnd(state) ==
  CASE state = EMPTY -> EMPTY [] state = MATCH -> EMPTY [] state = NOMATCH -> NOMATCH
    [] OTHER -> ACTIVE
notState(state) ==
  CASE state = EMPTY -> NOMATCH [] state = MATCH -> NOMATCH [] state = NOMATCH -> EMPTY
    [] OTHER -> ACTIVE
bkaState(state) ==
  CASE state = EMPTY -> EMPTY [] state = MATCH -> EMPTY [] state = NOMATCH -> NOMATCH
    [] OTHER -> ACTIVE
bknState(state) ==
  CASE state = EMPTY -> NOMATCH [] state = MATCH -> NOMATCH [] state = NOMATCH -> EMPTY
    [] OTHER -> ACTIVE
\* the phrase length each leaves: opAND and opNOT clear it before the switch,
\* opBKA and opBKN in every case of the switch that does not throw
predicateLength(type, sd) ==
  IF type \in {AND, NOT} \/ sd.state \in {EMPTY, MATCH, NOMATCH} THEN 0
  ELSE sd.phraseLength
predicateState(type, state) ==
  CASE type = AND -> andState(state) [] type = NOT -> notState(state)
    [] type = BKA -> bkaState(state) [] type = BKN -> bknState(state)

\* opAND, opNOT, opBKA, opBKN: push, evaluate the child, pop, map the state
predicate(type) ==
  /\ At(type, {"body", "resume"})
  /\ LET f == Top
     IN  IF f.pc = "body"
         THEN /\ lookAround' = Append(lookAround, type)
              /\ calls' = Call(f, opcodes, f.opIndex + 1, f.phraseIndex, f.sd,
                               ast, sysData.backrefFrame, lookAround')
              /\ UNCHANGED <<phase, error, sysData>>
         ELSE /\ lookAround' = SubSeq(lookAround, 1, Len(lookAround) - 1)
              /\ IF lookAround[Len(lookAround)] # type
                 THEN Throw("lookAround stack out of sync") /\ UNCHANGED sysData
                 ELSE /\ sysData' = [sysData EXCEPT
                                       !.phraseLength = predicateLength(type, sysData),
                                       !.state = predicateState(type, sysData.state)]
                      /\ IF sysData'.state = ACTIVE
                         THEN Throw("invalid state")
                         ELSE calls' = Exit(f) /\ UNCHANGED <<phase, error>>
  /\ UNCHANGED <<parentFrameMode, limitTreeDepth, limitNodeHits, grammar, chars, inputRest, aux,
                 opcodes, treeDepth, maxTreeDepth, nodeHits, maxMatched, ast, result>>

opAND == predicate(AND)
opNOT == predicate(NOT)
opBKA == predicate(BKA)
opBKN == predicate(BKN)

(***************************************************************************)
(* CAT and REP in look-behind mode                                         *)
(***************************************************************************)
\* opCATBehind hands a sysDataCopy to opExecute for its last child; that
\* call never returns (opExecute throws at sysData.refresh()), so the part
\* of the function after the call is never run.
opCATBehind ==
  /\ At(CAT, {"body"}) /\ inLookBehind
  /\ LET f == Top
         g == [f EXCEPT !.astLength = getLength(ast), !.success = TRUE,
                        !.charIndex = f.phraseIndex, !.matched = 0,
                        !.i = Len(f.op.children) - 1]
     IN  calls' = Call(g, opcodes, g.op.children[g.i + 1], g.charIndex, "copy",
                       ast, sysData.backrefFrame, lookAround)
  /\ UNCHANGED <<phase, error, parentFrameMode, limitTreeDepth, limitNodeHits,
                 grammar, chars, inputRest, aux, opcodes, lookAround, treeDepth, maxTreeDepth,
                 nodeHits, maxMatched, sysData, ast, result>>

\* opREPBehind throws at its first loop test, which reads charsFirst
opREPBehind ==
  /\ At(REP, {"body"}) /\ inLookBehind
  /\ Throw("ReferenceError: charsFirst is not defined")
  /\ UNCHANGED <<parentFrameMode, limitTreeDepth, limitNodeHits,
                 grammar, chars, inputRest, aux, opcodes, lookAround, treeDepth, maxTreeDepth,
                 nodeHits, maxMatched, sysData, ast, result>>

(***************************************************************************)
(* RNM                                                                     *)
(***************************************************************************)
NoCallback == [set |-> FALSE, state |-> ACTIVE, phraseLength |-> 0]
\* a syntax callback's assignments to sysData
callback(cb, sd) ==
  IF cb.set THEN [sd EXCEPT !.state = cb.state, !.phraseLength = cb.phraseLength]
  ELSE sd

\* a variant of validateRnmCallbackResult that accepts ACTIVE in the post-phase
validateRnmCallbackActive(sd, charsLeft, down_) ==
  IF sd.matchedLength > charsLeft \/ sd.phraseLength > charsLeft
  THEN [thrown |-> TRUE, sysData |-> sd]
  ELSE CASE sd.state = ACTIVE -> [thrown |-> FALSE, sysData |-> sd]
         [] sd.state = EMPTY -> [thrown |-> FALSE, sysData |-> [sd EXCEPT !.phraseLength = 0]]
         [] sd.state = MATCH ->
              [thrown |-> FALSE,
               sysData |-> [sd EXCEPT !.matchedLength = sd.phraseLength,
                                      !.state = IF sd.phraseLength = 0 THEN EMPTY ELSE MATCH]]
         [] sd.state = NOMATCH -> [thrown |-> FALSE, sysData |-> [sd EXCEPT !.phraseLength = 0]]
         [] OTHER -> [thrown |-> TRUE, sysData |-> sd]

\* a variant of validateRnmCallbackResult without the two tests of charsLeft
validateRnmCallbackState(sd, charsLeft, down_) ==
  CASE sd.state = ACTIVE -> [thrown |-> ~down_, sysData |-> sd]
    [] sd.state = EMPTY -> [thrown |-> FALSE, sysData |-> [sd EXCEPT !.phraseLength = 0]]
    [] sd.state = MATCH ->
         [thrown |-> FALSE,
          sysData |-> [sd EXCEPT !.matchedLength = sd.phraseLength,
                                 !.state = IF sd.phraseLength = 0 THEN EMPTY ELSE MATCH]]
    [] sd.state = NOMATCH -> [thrown |-> FALSE, sysData |-> [sd EXCEPT !.phraseLength = 0]]
    [] OTHER -> [thrown |-> TRUE, sysData |-> sd]

validateRnmCallbackResult(sd, charsLeft, down_) ==
  IF sd.matchedLength > charsLeft \/ sd.phraseLength > charsLeft
  THEN [thrown |-> TRUE, sysData |-> sd]
  ELSE CASE sd.state = ACTIVE -> [thrown |-> ~down_, sysData |-> sd]
         [] sd.state = EMPTY -> [thrown |-> FALSE, sysData |-> [sd EXCEPT !.phraseLength = 0]]
         [] sd.state = MATCH ->
              [thrown |-> FALSE,
               sysData |-> [sd EXCEPT !.matchedLength = sd.phraseLength,
                                      !.state = IF sd.phraseLength = 0 THEN EMPTY ELSE MATCH]]
         [] sd.state = NOMATCH -> [thrown |-> FALSE, sysData |-> [sd EXCEPT !.phraseLength = 0]]
         [] OTHER -> [thrown |-> TRUE, sysData |-> sd]

\* a variant of rnmBegin that takes every RNM to be outside look-around
rnmBeginAnywhere(f, sd, a) ==
  LET astDefined == a.attached /\ ruleDefined(a, f.op.index)
  IN  [frame |-> [f EXCEPT !.notLookAround = TRUE,
                           !.saveFrame = sd.backrefFrame,
                           !.astDefined = astDefined,
                           !.astLength = getLength(a)],
       sysData |-> IF parentFrameMode
                   THEN [sd EXCEPT !.backrefFrame = backrefInit] ELSE sd,
       ast |-> IF astDefined THEN down(a, f.op.index) ELSE a]

\* a variant of rnmBegin that keeps the caller's back-reference frame
rnmBeginKeep(f, sd, a) ==
  LET notLookAround == ~inLookAround
      astDefined == notLookAround /\ a.attached /\ ruleDefined(a, f.op.index)
  IN  [frame |-> [f EXCEPT !.notLookAround = notLookAround,
                           !.saveFrame = sd.backrefFrame,
                           !.astDefined = astDefined,
                           !.astLength = getLength(a)],
       sysData |-> sd,
       ast |-> IF astDefined THEN down(a, f.op.index) ELSE a]

\* opRNM before the rule is run (lines 666-682): the locals it sets, the
\* back-reference frame it installs and the AST record it opens
rnmBegin(f, sd, a) ==
  LET notLookAround == ~inLookAround
      astDefined == notLookAround /\ a.attached /\ ruleDefined(a, f.op.index)
  IN  [frame |-> [f EXCEPT !.notLookAround = notLookAround,
                           !.saveFrame = sd.backrefFrame,
                           !.astDefined = astDefined,
                           !.astLength = getLength(a)],
       sysData |-> IF notLookAround /\ parentFrameMode
                   THEN [sd EXCEPT !.backrefFrame = backrefInit] ELSE sd,
       ast |-> IF astDefined THEN down(a, f.op.index) ELSE a]

\* opRNM after the rule and its callback (lines 711-733): it closes or drops
\* the AST record, restores the frame and saves the phrase for BKR
rnmAstEnd(f, sd, a) ==
  IF f.notLookAround /\ f.astDefined
  THEN IF sd.state = NOMATCH THEN setLength(a, f.astLength)
       ELSE up(a, f.op.index, f.phraseIndex, sd.phraseLength)
  ELSE a
\* a variant of rnmFrameEnd that never goes back to the saved frame
rnmFrameEndCurrent(f, sd) ==
  IF ~f.notLookAround THEN sd.backrefFrame
  ELSE IF rules[f.op.index + 1].isBkr /\ sd.state \in {MATCH, EMPTY}
  THEN [sd.backrefFrame EXCEPT ![f.op.index] = Ref(f.phraseIndex, sd.phraseLength)]
  ELSE sd.backrefFrame
\* a variant of rnmFrameEnd that empties the entry of a rule that failed
rnmFrameEndUndo(f, sd) ==
  LET frame == IF parentFrameMode THEN f.saveFrame ELSE sd.backrefFrame
  IN  IF ~f.notLookAround THEN sd.backrefFrame
      ELSE IF rules[f.op.index + 1].isBkr
      THEN [frame EXCEPT ![f.op.index] =
              IF sd.state \in {MATCH, EMPTY}
              THEN Ref(f.phraseIndex, sd.phraseLength) ELSE NullRef]
      ELSE frame
rnmFrameEnd(f, sd) ==
  LET frame == IF parentFrameMode THEN f.saveFrame ELSE sd.backrefFrame
  IN  IF ~f.notLookAround THEN sd.backrefFrame
      ELSE IF rules[f.op.index + 1].isBkr /\ sd.state \in {MATCH, EMPTY}
      THEN [frame EXCEPT ![f.op.index] = Ref(f.phraseIndex, sd.phraseLength)]
      ELSE frame

\* a variant of rnmRun that evaluates the rule's opcodes whatever the
\* callback's pre-phase left
rnmRunAlways(pc, hasCallback, sd) == pc = "body"
\* opRNM evaluates the rule's opcodes: there is no callback, or its pre-phase
\* has left sysData (sd) ACTIVE
rnmRun(pc, hasCallback, sd) == pc = "body" /\ (~hasCallback \/ sd.state = ACTIVE)

opRNM ==
  /\ At(RNM, {"body", "resume"})
  /\ LET f == Top
         index == f.op.index
         hasCallback == index \in ruleCallbacks
         charsLeft == Len(chars) - f.phraseIndex
     IN  IF index < 0
         THEN \* rules[-1] and ruleCallbacks[-1] are undefined: the callback,
              \* which is not null, is called
              /\ Throw("TypeError: callback is not a function")
              /\ UNCHANGED <<opcodes, lookAround, sysData, ast>>
         ELSE
         \E cb \in IF hasCallback THEN CallbackResults ELSE {NoCallback} :
           LET b == rnmBegin(f, sysData, ast)
               \* sysData after the callback and its validation
               v == IF ~hasCallback
                    THEN [thrown |-> FALSE,
                          sysData |-> IF f.pc = "body" THEN b.sysData ELSE sysData]
                    ELSE IF f.pc = "body"
                    THEN validateRnmCallbackResult(
                           callback(cb, [b.sysData EXCEPT !.lookBehind = inLookBehind]),
                           charsLeft, TRUE)
                    ELSE validateRnmCallbackResult(callback(cb, sysData), charsLeft, FALSE)
               g == IF f.pc = "body" THEN b.frame ELSE f
               a == IF f.pc = "body" THEN b.ast ELSE ast
               \* RNM runs the rule's opcodes
               run == rnmRun(f.pc, hasCallback, v.sysData)
               sdEnd == IF hasCallback THEN [v.sysData EXCEPT !.lookBehind = FALSE]
                        ELSE v.sysData
           IN  /\ opcodes' = IF f.pc = "resume" THEN f.savedOpcodes
                             ELSE IF run /\ ~v.thrown THEN index ELSE opcodes
               /\ lookAround' = lookAround
               /\ IF v.thrown
                  THEN /\ Throw("opRNM: callback function error")
                       /\ sysData' = v.sysData
                       /\ ast' = a
                  ELSE IF run
                  THEN /\ sysData' = v.sysData
                       /\ ast' = a
                       /\ calls' = Call([g EXCEPT !.savedOpcodes = opcodes], index, 0,
                                        f.phraseIndex, f.sd, a, v.sysData.backrefFrame,
                                        lookAround)
                       /\ UNCHANGED <<phase, error>>
                  ELSE IF g.notLookAround /\ g.astDefined /\ sdEnd.state # NOMATCH
                          /\ ~canUp(a)
                  THEN /\ Throw("TypeError: ast.up")
                       /\ sysData' = sdEnd
                       /\ ast' = a
                  ELSE /\ sysData' = [sdEnd EXCEPT !.backrefFrame = rnmFrameEnd(g, sdEnd)]
                       /\ ast' = rnmAstEnd(g, sdEnd, a)
                       /\ calls' = Exit(g)
                       /\ UNCHANGED <<phase, error>>
  /\ UNCHANGED <<parentFrameMode, limitTreeDepth, limitNodeHits, grammar, chars, inputRest, aux,
                 treeDepth, maxTreeDepth, nodeHits, maxMatched, result>>

(***************************************************************************)
(* ast.translate(data), called for the AST of a parse that has returned.   *)
(***************************************************************************)
\* the nodes whose ast.callbacks entry is a function (the others are `true`)
nodeCallbacks(a) == IF Scenarios[grammar] = GAstRollback THEN a.nodes \ {1} ELSE a.nodes

\* a variant of translateNext that ignores what the callback returns
translateNextOk(record, i, ret) == i + 1
\* the loop index after the iteration for record i, whose callback, if it
\* has one, returned ret: thatIndex is null for a down record without an up
\* record, and null + 1 is 1
translateNext(record, i, ret) ==
  IF record.state = SEM_PRE /\ ret = SEM_SKIP
  THEN (IF record.thatIndex = Undefined THEN 0 ELSE record.thatIndex) + 1
  ELSE i + 1

\* the call translate(data): the loop begins
translate ==
  /\ phase = "done" /\ ast.attached /\ translation = NoTranslation
  /\ translation' = NoTranslation
  /\ phase' = IF Len(ast.records) > 0 THEN "translate" ELSE "done"
  /\ UNCHANGED <<error, parentFrameMode, limitTreeDepth, limitNodeHits, grammar,
                 chars, inputRest, opcodes, lookAround, treeDepth, maxTreeDepth,
                 nodeHits, maxMatched, sysData, calls, ast, result, traceVars,
                 statsVars, evaluation, previousCall>>

\* one iteration of the loop of translate
translateRecord ==
  /\ phase = "translate"
  /\ LET i == translation.i
         record == ast.records[i + 1]
         hasCallback == record.callbackIndex \in nodeCallbacks(ast)
     IN  \E ret \in IF hasCallback THEN {SEM_OK, SEM_SKIP} ELSE {Undefined} :
           LET next == translateNext(record, i, ret)
           IN  /\ translation' =
                    [i |-> next,
                     calls |-> IF hasCallback
                               THEN Append(translation.calls,
                                           [index |-> i, state |-> record.state,
                                            ret |-> ret])
                               ELSE translation.calls]
               /\ phase' = IF next < Len(ast.records) THEN "translate" ELSE "done"
  /\ UNCHANGED <<error, parentFrameMode, limitTreeDepth, limitNodeHits, grammar,
                 chars, inputRest, opcodes, lookAround, treeDepth, maxTreeDepth,
                 nodeHits, maxMatched, sysData, calls, ast, result, traceVars,
                 statsVars, evaluation, previousCall>>

(***************************************************************************)
(* The trace object (trace.js) and its circular buffer                     *)
(* (circular-buffer.js), as the parser drives them: initializeTrace calls  *)
(* trace.init, opExecute calls trace.down when it is entered and trace.up  *)
(* with the same opcode before it returns.  traceCalls holds the opcodes   *)
(* of the opExecute calls that have not returned; traceLog lists, for      *)
(* stating properties, the records in the order they were made.            *)
(***************************************************************************)
\* Bounds: the largest capacity set, the number of trace.down/up calls of a
\* parse and the depth of the opExecute calls.
MaxLines == 3
MaxTraceRecords == 6
MaxTraceDepth == 2

\* the names given in trace.filter.operators and trace.filter.rules, in upper
\* and lower case as the code compares them; the grammar has the rules
\* rule0 and rule1 and no UDT
OperatorNames == {"<ALL>", "TLS", "BOGUS"}
RuleNames == {"<none>", "rule0", "bogus"}
TraceRules == <<"rule0", "rule1">>
\* the opcodes of the traced evaluations
TraceOps == {OpTLS(<<97>>), OpRNM(0), OpRNM(1)}

\* setOperators(true): the operators initOperatorFilter knows
OperatorTypes == {ALT, CAT, REP, AND, NOT, TLS, TBS, TRG}
operatorOf(name) ==
  CASE name = "ALT" -> ALT [] name = "CAT" -> CAT [] name = "REP" -> REP
    [] name = "AND" -> AND [] name = "NOT" -> NOT [] name = "TLS" -> TLS
    [] name = "TBS" -> TBS [] name = "TRG" -> TRG [] OTHER -> 0

\* a variant of initOperatorFilter that does not reject an unknown name
initOperatorFilterLax(names) ==
  IF "<ALL>" \in names THEN [error |-> "", filter |-> OperatorTypes]
  ELSE [error |-> "", filter |-> {operatorOf(n) : n \in names} \ {0}]
\* initOperatorFilter(): the error thrown, or the operators to trace
initOperatorFilter(names) ==
  IF names = {} THEN [error |-> "", filter |-> {}]
  ELSE IF "<ALL>" \in names THEN [error |-> "", filter |-> OperatorTypes]
  ELSE IF "<NONE>" \in names THEN [error |-> "", filter |-> {}]
  ELSE IF \E n \in names : operatorOf(n) = 0
  THEN [error |-> "not a valid operator name", filter |-> {}]
  ELSE [error |-> "", filter |-> {operatorOf(n) : n \in names}]

\* list.indexOf(lower)
ruleIndexOf(name) ==
  IF \E i \in 1 .. Len(TraceRules) : TraceRules[i] = name
  THEN (CHOOSE i \in 1 .. Len(TraceRules) : TraceRules[i] = name) - 1
  ELSE -1
\* initRuleFilter(): the error thrown, or whether RNM and UDT operators are
\* traced and the rules to trace
initRuleFilter(names) ==
  LET all == {i - 1 : i \in 1 .. Len(TraceRules)}
  IN  IF names = {} THEN [error |-> "", named |-> TRUE, filter |-> all]
      ELSE IF "<all>" \in names THEN [error |-> "", named |-> TRUE, filter |-> all]
      ELSE IF "<none>" \in names THEN [error |-> "", named |-> FALSE, filter |-> {}]
      ELSE IF \E n \in names : ruleIndexOf(n) < 0
      THEN [error |-> "not a valid rule or udt name", named |-> FALSE, filter |-> {}]
      ELSE [error |-> "", named |-> TRUE, filter |-> {ruleIndexOf(n) : n \in names}]

\* trace.setMaxRecords(max)
setMaxRecords(max) ==
  /\ trace.state = "new"
  /\ trace' = IF max > 0 THEN [trace EXCEPT !.maxLines = max] ELSE trace
  /\ UNCHANGED <<parserVars, traceCalls, traceLog>>

\* trace.init(rules, udts, chars), called by initializeTrace() with
\* trace.filter as the user has set it
traceInit(operators, ruleNames) ==
  /\ trace.state = "new"
  /\ LET o == initOperatorFilter(operators)
         r == initRuleFilter(ruleNames)
         t == [trace EXCEPT !.operators = operators, !.rules = ruleNames]
     IN  trace' =
           IF o.error # "" THEN [t EXCEPT !.state = "error", !.error = o.error]
           ELSE IF r.error # ""
           THEN [t EXCEPT !.state = "error", !.error = r.error,
                          !.operatorFilter = o.filter]
           ELSE [t EXCEPT !.state = "ready",
                          !.operatorFilter = o.filter \cup
                                             (IF r.named THEN {RNM, UDT} ELSE {}),
                          !.ruleFilter = r.filter,
                          !.maxListSize = t.maxLines,
                          !.itemIndex = -1]
  /\ UNCHANGED <<parserVars, traceCalls, traceLog>>

\* filter(op)
filter(t, op) ==
  IF op.type = RNM THEN RNM \in t.operatorFilter /\ op.index \in t.ruleFilter
  ELSE IF op.type = UDT
  THEN UDT \in t.operatorFilter /\ Len(TraceRules) + op.index \in t.ruleFilter
  ELSE op.type \in t.operatorFilter

\* circular.increment(): the list index of the next item
increment(t) == (t.itemIndex + 1 + t.maxListSize) % t.maxListSize
\* a variant of getListIndex without the test for an evicted item
getListIndexAny(t, item) ==
  IF t.itemIndex = -1 THEN -1
  ELSE IF item < 0 \/ item > t.itemIndex THEN -1
  ELSE (item + t.maxListSize) % t.maxListSize
\* circular.getListIndex(item)
getListIndex(t, item) ==
  IF t.itemIndex = -1 THEN -1
  ELSE IF item < 0 \/ item > t.itemIndex THEN -1
  ELSE IF t.itemIndex - item >= t.maxListSize THEN -1
  ELSE (item + t.maxListSize) % t.maxListSize

\* lines[index] = record
Store(lines, index, record) ==
  [i \in DOMAIN lines \cup {index} |-> IF i = index THEN record ELSE lines[i]]

\* trace.down(op, ...), called when opExecute is entered for op
traceDown(op) ==
  /\ trace.state = "ready"
  /\ trace.totalRecords < MaxTraceRecords
  /\ Len(traceCalls) < MaxTraceDepth
  /\ traceCalls # <<>> => traceCalls[Len(traceCalls)].type = RNM
  /\ traceCalls' = Append(traceCalls, op)
  /\ IF filter(trace, op)
     THEN LET record == [dirUp |-> FALSE, depth |-> trace.treeDepth,
                         thisLine |-> trace.filteredRecords,
                         thatLine |-> Undefined, opcode |-> op]
          IN  /\ trace' = [trace EXCEPT
                             !.totalRecords = @ + 1,
                             !.lineStack = Append(@, trace.filteredRecords),
                             !.lines = Store(@, increment(trace), record),
                             !.itemIndex = @ + 1,
                             !.filteredRecords = @ + 1,
                             !.treeDepth = @ + 1]
              /\ traceLog' = Append(traceLog, record)
     ELSE /\ trace' = [trace EXCEPT !.totalRecords = @ + 1]
          /\ UNCHANGED traceLog
  /\ UNCHANGED parserVars

\* trace.up(op, ...), called before the opExecute call for op returns
traceUp ==
  /\ trace.state = "ready"
  /\ traceCalls # <<>>
  /\ LET op == traceCalls[Len(traceCalls)]
     IN  /\ traceCalls' = SubSeq(traceCalls, 1, Len(traceCalls) - 1)
         /\ IF filter(trace, op)
            THEN LET thisLine == trace.filteredRecords
                     thatLine == trace.lineStack[Len(trace.lineStack)]
                     thatRecord == getListIndex(trace, thatLine)
                     patched == IF thatRecord # -1
                                THEN [trace.lines EXCEPT ![thatRecord].thatLine = thisLine]
                                ELSE trace.lines
                     record == [dirUp |-> TRUE, depth |-> trace.treeDepth - 1,
                                thisLine |-> thisLine, thatLine |-> thatLine,
                                opcode |-> op]
                 IN  /\ trace' = [trace EXCEPT
                                    !.totalRecords = @ + 1,
                                    !.lineStack = SubSeq(@, 1, Len(@) - 1),
                                    !.lines = Store(patched, increment(trace), record),
                                    !.itemIndex = @ + 1,
                                    !.filteredRecords = @ + 1,
                                    !.treeDepth = @ - 1]
                     /\ traceLog' = Append(traceLog, record)
            ELSE /\ trace' = [trace EXCEPT !.totalRecords = @ + 1]
                 /\ UNCHANGED traceLog
  /\ UNCHANGED parserVars

\* circular.forEach(fn): the list indexes and items fn is called with, in order
forEach(t) ==
  IF t.itemIndex = -1 THEN <<>>
  ELSE IF t.itemIndex < t.maxListSize
  THEN [k \in 1 .. t.itemIndex + 1 |-> [listIndex |-> k - 1, itemIndex |-> k - 1]]
  ELSE [k \in 1 .. t.maxListSize |->
          LET i == t.itemIndex - t.maxListSize + k
          IN  [listIndex |-> (i + t.maxListSize) % t.maxListSize, itemIndex |-> i]]

TraceNext ==
  \/ \E max \in 0 .. MaxLines : setMaxRecords(max)
  \/ \E operators \in SUBSET OperatorNames, ruleNames \in SUBSET RuleNames :
       traceInit(operators, ruleNames)
  \/ \E op \in TraceOps : traceDown(op)
  \/ traceUp

TraceSpec == Init /\ [][TraceNext]_vars

(***************************************************************************)
(* The statistics object (stats.js), as the parser drives it:              *)
(* initializeStats calls stats.init, and each opExecute call, which has    *)
(* counted a node hit when it was entered, calls stats.collect(op,         *)
(* sysData) before it returns.                                             *)
(***************************************************************************)
\* Bounds: the node hits of a parse and the depth of the opExecute calls.
MaxStatsHits == 4
MaxStatsDepth == 2
\* the opcodes of the evaluations; the grammar has two rules and no UDT
StatsOps == {OpTLS(<<97>>), OpRNM(0), OpRNM(1), OpBKR(1, FALSE), OpBKA}
StatsRules == 2

\* the operators clear() makes a counter for
StatTypes == {ALT, CAT, RNM, UDT, REP, AND, NOT, TLS, TBS, TRG}
\* the counters of every operator type of identifiers.js
AllStatTypes == {ALT, CAT, RNM, UDT, REP, AND, NOT, TLS, TBS, TRG, BKR, BKA, BKN}

\* a variant of statsClear that makes a counter for every operator type
statsClearAll(n) ==
  [state |-> "ready", totals |-> Stat0, stats |-> [t \in AllStatTypes |-> Stat0],
   ruleStats |-> [i \in 1 .. n |-> Stat0]]
\* clear(), for a grammar with n rules
statsClear(n) ==
  [state |-> "ready", totals |-> Stat0, stats |-> [t \in StatTypes |-> Stat0],
   ruleStats |-> [i \in 1 .. n |-> Stat0]]

\* stats.init(rules, udts), called by initializeStats()
statsInit ==
  /\ stats.state = "new"
  /\ stats' = statsClear(StatsRules)
  /\ UNCHANGED <<coreVars, traceVars, statsCalls>>

\* incStat(stat, state, phraseLength), for a parser state
incStat(stat, state) ==
  [stat EXCEPT !.total = @ + 1,
               !.empty = IF state = EMPTY THEN @ + 1 ELSE @,
               !.match = IF state = MATCH THEN @ + 1 ELSE @,
               !.nomatch = IF state = NOMATCH THEN @ + 1 ELSE @]

\* opExecute is entered for op: nodeHits += 1
statsEnter(op) ==
  /\ stats.state = "ready"
  /\ statsCalls.nodeHits < MaxStatsHits
  /\ Len(statsCalls.calls) < MaxStatsDepth
  /\ statsCalls.calls # <<>> =>
       statsCalls.calls[Len(statsCalls.calls)].type \in {RNM, BKA}
  /\ statsCalls' = [calls |-> Append(statsCalls.calls, op),
                    nodeHits |-> statsCalls.nodeHits + 1]
  /\ UNCHANGED <<coreVars, traceVars, stats>>

\* stats.collect(op, result), called before the opExecute call for op
\* returns with result.state = state: a TypeError is thrown for an operator
\* type without a counter, the overall counter incremented
collect(state) ==
  /\ stats.state = "ready"
  /\ statsCalls.calls # <<>>
  /\ LET op == statsCalls.calls[Len(statsCalls.calls)]
         t == [stats EXCEPT !.totals = incStat(@, state)]
     IN  IF op.type \notin DOMAIN stats.stats
         THEN /\ stats' = [t EXCEPT !.state = "error"]
              /\ statsCalls' = [statsCalls EXCEPT !.calls = <<>>]
         ELSE /\ stats' = [t EXCEPT
                             !.stats[op.type] = incStat(@, state),
                             !.ruleStats = IF op.type = RNM
                                           THEN [@ EXCEPT ![op.index + 1] = incStat(@, state)]
                                           ELSE @]
              /\ statsCalls' = [statsCalls EXCEPT
                                  !.calls = SubSeq(@, 1, Len(@) - 1)]
  /\ UNCHANGED <<coreVars, traceVars>>

StatsNext ==
  \/ statsInit
  \/ \E op \in StatsOps : statsEnter(op)
  \/ \E state \in {EMPTY, MATCH, NOMATCH} : collect(state)

StatsSpec == Init /\ [][StatsNext]_vars

(***************************************************************************)
(* evaluateRule and evaluateUdt, which a syntax callback may call through  *)
(* sysData.  The callback runs while the variable opcodes is the opcode    *)
(* list of the rule that refers to the callback's rule (opRNM calls the    *)
(* callback before it sets opcodes = rule.opcodes), or privateParse's list *)
(* for the start rule.                                                     *)
(***************************************************************************)
\* Bounds: the opcodes left on the lists, and the node hits of a parse.
MaxPushed == 2
MaxEvalHits == 3

RECURSIVE SumLen(_, _)
SumLen(f, T) ==
  IF T = {} THEN 0
  ELSE LET t == CHOOSE x \in T : TRUE IN Len(f[t]) + SumLen(f, T \ {t})
Pushed(lists) == SumLen(lists, 0 .. Len(EvalRules) - 1)
                   - SumLen([t \in EvalTables |-> EvalOpcodes(t)], 0 .. Len(EvalRules) - 1)

\* a parse call comes to the callback of a rule referred to from list t,
\* under the cap limit: clear() and privateParse's new list for the start rule
evalParse(t, limit) ==
  /\ evaluation.state \in {"idle", "returned", "raised"}
  /\ Pushed(evaluation.lists) < MaxPushed
  /\ evaluation' = [evaluation EXCEPT
                      !.state = "callback", !.opcodes = t, !.nodeHits = 1,
                      !.limitNodeHits = limit, !.call = NullOpcodes,
                      !.lists[StartOpcodes] = EvalOpcodes(StartOpcodes)]
  /\ UNCHANGED <<baseVars, traceVars, statsVars>>

\* opcodes.push(op)
evalPush(e, op) == [e.lists EXCEPT ![e.opcodes] = Append(@, op)]

\* evaluateRule and evaluateUdt from opcodes.push to the entry of opExecute
\* for the opcode pushed (parser.js lines 1282-1288), and opRNM's call of
\* the callback of rule -1
evalExecute(e, op) ==
  LET pushed == [e EXCEPT !.lists = evalPush(e, op), !.nodeHits = @ + 1]
  IN  IF nodeHitsExceeded(pushed.nodeHits, e.limitNodeHits)
         \/ (op.type = RNM /\ op.index < 0)
      THEN [pushed EXCEPT !.state = "raised"]
      ELSE [pushed EXCEPT !.state = "execute", !.call = e.opcodes]

\* evaluateRule(ruleIndex, phraseIndex, sysData), called by the callback:
\* the two range errors are ReferenceErrors (functionsName is not defined)
evaluateRule(ruleIndex, phraseIndex) ==
  /\ evaluation.state = "callback"
  /\ evaluation.nodeHits < MaxEvalHits
  /\ evaluation' =
       IF ruleIndex >= Len(EvalRules) \/ phraseIndex >= EvalChars
       THEN [evaluation EXCEPT !.state = "raised"]
       ELSE evalExecute(evaluation, OpRNM(ruleIndex))
  /\ UNCHANGED <<baseVars, traceVars, statsVars>>

\* evaluateUdt(udtIndex, phraseIndex, sysData): udts[-1].empty is a TypeError
evaluateUdt(udtIndex, phraseIndex) ==
  /\ evaluation.state = "callback"
  /\ evaluation.nodeHits < MaxEvalHits
  /\ evaluation' =
       IF udtIndex >= EvalUdts \/ phraseIndex >= EvalChars \/ udtIndex < 0
       THEN [evaluation EXCEPT !.state = "raised"]
       ELSE evalExecute(evaluation, OpUDT(udtIndex))
  /\ UNCHANGED <<baseVars, traceVars, statsVars>>

\* an opExecute call within the opExecute call of evaluateRule
evalNode ==
  /\ evaluation.state = "execute"
  /\ evaluation.nodeHits < MaxEvalHits
  /\ evaluation' =
       [evaluation EXCEPT
          !.nodeHits = @ + 1,
          !.state = IF nodeHitsExceeded(evaluation.nodeHits + 1, evaluation.limitNodeHits)
                    THEN "raised" ELSE @]
  /\ UNCHANGED <<baseVars, traceVars, statsVars>>

\* the opExecute call of evaluateRule or evaluateUdt returns: opcodes.pop()
evalReturn ==
  /\ evaluation.state = "execute"
  /\ evaluation' =
       [evaluation EXCEPT
          !.state = "callback", !.call = NullOpcodes,
          !.lists[evaluation.call] = SubSeq(@, 1, Len(@) - 1)]
  /\ UNCHANGED <<baseVars, traceVars, statsVars>>

\* the callback returns and the parse call returns
evalDone ==
  /\ evaluation.state = "callback"
  /\ evaluation' = [evaluation EXCEPT !.state = "returned", !.opcodes = NullOpcodes]
  /\ UNCHANGED <<baseVars, traceVars, statsVars>>

EvalNext ==
  \/ \E t \in EvalTables, limit \in {2, Infinity} : evalParse(t, limit)
  \/ \E ruleIndex \in -1 .. Len(EvalRules), phraseIndex \in {0, EvalChars} :
       evaluateRule(ruleIndex, phraseIndex)
  \/ \E udtIndex \in -1 .. EvalUdts, phraseIndex \in {0, EvalChars} :
       evaluateUdt(udtIndex, phraseIndex)
  \/ evalNode
  \/ evalReturn
  \/ evalDone

EvalSpec == Init /\ [][EvalNext]_vars

\* The windows of the parseSubstring calls end at most MaxRest characters
\* before the end of the input.
MaxRest == 1

\* The grammars of the parse calls: all of them under the default limits,
\* and S = 2*3"a" and the look-ahead grammar when a limit has been set.
CapGrammars == {g \in 1 .. Len(Scenarios) : Scenarios[g] \in {GRep, GLookAhead}}
Grammars ==
  IF limitNodeHits = Infinity /\ limitTreeDepth = Infinity
  THEN 1 .. Len(Scenarios) \cup {BadGrammar} ELSE CapGrammars

\* the start rules given for grammar g: rule 0 only when a limit has been set
Starts(g) ==
  IF g = BadGrammar THEN {[type |-> "number", index |-> 0]}
  ELSE IF g \in CapGrammars /\ ~(limitNodeHits = Infinity /\ limitTreeDepth = Infinity)
  THEN {[type |-> "number", index |-> 0]}
  ELSE StartRules(Len(Scenarios[g].rules))

Next ==
  \/ \E universalMode \in BOOLEAN : setUniversalMode(universalMode)
  \/ \E depth \in CapValues : setMaxTreeDepth(depth)
  \/ \E depth \in CapValues : setMaxNodeHits(depth)
  \/ clear
  \/ /\ phase = "parse"
     /\ \E g \in Grammars : \E start \in Starts(g) : \E inputChars \in Inputs(g) :
          parse(g, start, inputChars)
  \/ /\ phase = "parse"
     /\ \E g \in Grammars : \E start \in Starts(g) : \E inputChars \in Inputs(g) :
          \E inputIndex \in 0 .. Len(inputChars), inputLength \in 0 .. Len(inputChars) :
            /\ inputIndex + inputLength >= Len(inputChars) - MaxRest
            /\ parseSubstring(g, start, inputChars, inputIndex, inputLength)
  \/ opExecute
  \/ opALT
  \/ opCAT
  \/ opREP
  \/ opRNM
  \/ opAND
  \/ opNOT
  \/ opBKA
  \/ opBKN
  \/ execTRG
  \/ execTBS
  \/ execTLS
  \/ execBKR
  \/ opCATBehind
  \/ opREPBehind
  \/ execTRGBehind
  \/ execTBSBehind
  \/ execTLSBehind
  \/ execBKRBehind
  \/ opExecuteReturn
  \/ translate
  \/ translateRecord
  \/ privateParse

Spec == Init /\ [][Next]_vars

(***************************************************************************)
(* Properties.  An opcode evaluation returns in the states where the top   *)
(* frame is at "exit": the operator function has finished and opExecute    *)
(* is about to return to its caller; `kids` then lists the evaluations     *)
(* the function made, in order, each with the state and phrase length it   *)
(* returned.                                                               *)
(***************************************************************************)
AtReturn == Running /\ Top.pc = "exit"
Matched == {MATCH, EMPTY}
Predicates == {AND, NOT, BKA, BKN}
\* the phrase lengths of the first n evaluations of kids, summed
RECURSIVE SumLengths(_, _)
SumLengths(kids, n) ==
  IF n = 0 THEN 0 ELSE SumLengths(kids, n - 1) + kids[n].phraseLength

\* C1: a parse or parseSubstring call that returns reports the state and
\* the phrase length of the start rule and the length of the window, and
\* its success is true exactly when the state is MATCH or EMPTY and the
\* phrase length equals the window length.
ResultSuccess ==
  phase = "done" =>
    /\ result.state = sysData.state
    /\ result.matched = sysData.phraseLength
    /\ result.length = Len(chars)
    /\ result.success = (sysData.state \in Matched /\ sysData.phraseLength = Len(chars))
\* a parse returns with a MATCH of a proper prefix of the window
ResultSuccessWitness ==
  /\ phase = "done" /\ result.state = MATCH
  /\ result.matched > 0 /\ result.matched < result.length /\ ~result.success

\* C2: when ALT returns it has evaluated a prefix of its children, in
\* order and each at ALT's own phrase index; every one but the last
\* returned NOMATCH, ALT returns the state and the phrase length of the
\* last, and if that is NOMATCH the prefix is the whole list.
AltFirstMatch ==
  At(ALT, {"exit"}) =>
    LET f == Top
        n == Len(f.kids)
    IN  /\ n >= 1 /\ n <= Len(f.op.children)
        /\ \A k \in 1 .. n : /\ f.kids[k].opIndex = f.op.children[k]
                             /\ f.kids[k].phraseIndex = f.phraseIndex
        /\ \A k \in 1 .. n - 1 : f.kids[k].state = NOMATCH
        /\ sysData.state = f.kids[n].state
        /\ sysData.phraseLength = f.kids[n].phraseLength
        /\ sysData.state = NOMATCH => n = Len(f.op.children)
\* an ALT of three returns the MATCH of its second child: the first
\* returned NOMATCH and the third was not evaluated
AltFirstMatchWitness ==
  /\ At(ALT, {"exit"}) /\ Len(Top.op.children) = 3 /\ Len(Top.kids) = 2
  /\ Top.kids[1].state = NOMATCH /\ sysData.state = MATCH

\* C3: when forward CAT returns it has evaluated a prefix of its children,
\* in order, each where the one before it ended; every one but the last
\* returned MATCH or EMPTY.  If it evaluated them all and the last returned
\* MATCH or EMPTY too, CAT returns the summed length, as EMPTY when that is
\* 0 and as MATCH otherwise; if not, the last returned NOMATCH and CAT
\* returns NOMATCH with phrase length 0.
CatAllOrNothing ==
  (At(CAT, {"exit"}) /\ ~inLookBehind) =>
    LET f == Top
        n == Len(f.kids)
        sum == SumLengths(f.kids, n)
    IN  /\ n >= 1 /\ n <= Len(f.op.children)
        /\ \A k \in 1 .. n :
             /\ f.kids[k].opIndex = f.op.children[k]
             /\ f.kids[k].phraseIndex = f.phraseIndex + SumLengths(f.kids, k - 1)
        /\ \A k \in 1 .. n - 1 : f.kids[k].state \in Matched
        /\ IF n = Len(f.op.children) /\ f.kids[n].state \in Matched
           THEN /\ sysData.state = (IF sum = 0 THEN EMPTY ELSE MATCH)
                /\ sysData.phraseLength = sum
           ELSE /\ f.kids[n].state = NOMATCH
                /\ sysData.state = NOMATCH
                /\ sysData.phraseLength = 0
\* a CAT of three stops at its second child: the first matched, the second
\* returned NOMATCH, the third was not evaluated
CatAllOrNothingWitness ==
  /\ At(CAT, {"exit"}) /\ ~inLookBehind
  /\ Len(Top.op.children) = 3 /\ Len(Top.kids) = 2
  /\ Top.kids[1].state = MATCH /\ sysData.state = NOMATCH

\* C4: when forward REP returns, every evaluation of its child was made
\* with the cursor before the window end, at the place the repetitions
\* before it had reached, and every one but the last was a counted
\* repetition (neither NOMATCH nor EMPTY) that did not bring the count to
\* max.  The loop ended because the cursor was at or after the window end,
\* or the last evaluation returned NOMATCH or EMPTY, or the count reached
\* max.  REP returns the accumulated length (EMPTY when it is 0, MATCH
\* otherwise) if the last evaluation returned EMPTY or the count is at
\* least min, and NOMATCH with phrase length 0 if not.  S = 2*3"a" on
\* [a,a] returns success with matched = 2.
RepCounts ==
  /\ (At(REP, {"exit"}) /\ ~inLookBehind) =>
       LET f == Top
           n == Len(f.kids)
           cursor(k) == f.phraseIndex + SumLengths(f.kids, k)
           repCount == Cardinality({k \in 1 .. n : f.kids[k].state \notin {NOMATCH, EMPTY}})
           lastEmpty == n >= 1 /\ f.kids[n].state = EMPTY
       IN  /\ \A k \in 1 .. n : /\ f.kids[k].opIndex = f.opIndex + 1
                                /\ f.kids[k].phraseIndex = cursor(k - 1)
                                /\ cursor(k - 1) < Len(chars)
           /\ \A k \in 1 .. n - 1 : f.kids[k].state \notin {NOMATCH, EMPTY} /\ k # f.op.max
           /\ \/ cursor(n) >= Len(chars)
              \/ n >= 1 /\ f.kids[n].state \in {NOMATCH, EMPTY}
              \/ repCount = f.op.max
           /\ IF lastEmpty \/ repCount >= f.op.min
              THEN /\ sysData.state = (IF cursor(n) = f.phraseIndex THEN EMPTY ELSE MATCH)
                   /\ sysData.phraseLength = cursor(n) - f.phraseIndex
              ELSE sysData.state = NOMATCH /\ sysData.phraseLength = 0
  /\ (phase = "done" /\ Scenarios[grammar] = GRep /\ chars = <<97, 97>>) =>
       result.success /\ result.matched = 2
\* the REP of S = 2*3"a" returns on [a,a]: two repetitions, ended by the
\* end of the window
RepCountsWitness ==
  /\ At(REP, {"exit"}) /\ Scenarios[grammar] = GRep /\ chars = <<97, 97>>
  /\ Len(Top.kids) = 2 /\ sysData.state = MATCH /\ sysData.phraseLength = 2

\* C5: when AND, NOT, BKA or BKN returns it has evaluated its child once,
\* at its own phrase index; the phrase length it returns is 0; AND and BKA
\* return EMPTY if the child returned MATCH or EMPTY and NOMATCH if it
\* returned NOMATCH, NOT and BKN the other way round.
PredicateResult ==
  \A type \in Predicates :
    At(type, {"exit"}) =>
      LET f == Top
          child == f.kids[1]
      IN  /\ Len(f.kids) = 1
          /\ child.opIndex = f.opIndex + 1 /\ child.phraseIndex = f.phraseIndex
          /\ child.state \in {MATCH, EMPTY, NOMATCH}
          /\ sysData.phraseLength = 0
          /\ sysData.state = IF (type \in {AND, BKA}) = (child.state \in Matched)
                             THEN EMPTY ELSE NOMATCH
\* NOT returns NOMATCH, with length 0, for a child that matched characters
PredicateResultWitness ==
  /\ At(NOT, {"exit"}) /\ Top.kids[1].state = MATCH /\ Top.kids[1].phraseLength > 0
  /\ sysData.state = NOMATCH /\ sysData.phraseLength = 0

\* C6: when AND, NOT, BKA or BKN returns, the AST (records and working
\* stack) and the back-reference frame are what they were when it was
\* entered; and all the time the parser is in look-around, they are what
\* they were when the evaluation now running was entered: nothing evaluated
\* in look-around records an AST node or sets a frame entry.
LookAroundTransparent ==
  /\ \A type \in Predicates :
       At(type, {"exit"}) => ast = Top.astIn /\ sysData.backrefFrame = Top.frameIn
  /\ (Running /\ inLookAround) => ast = Top.astIn /\ sysData.backrefFrame = Top.frameIn
\* the AND of S = &(A "b") !(A A) A \A returns after its child matched: A,
\* an AST node and back-referenced, was evaluated inside it, while the AST
\* holds the open record of S
LookAroundTransparentWitness ==
  /\ At(AND, {"exit"}) /\ Scenarios[grammar] = GLookRules
  /\ Top.kids[1].state = MATCH /\ Len(ast.records) > 0

\* C7: whenever an opcode evaluation returns NOMATCH, the AST (records and
\* working stack) is what it was when the evaluation was entered.
AstRollback ==
  (AtReturn /\ sysData.state = NOMATCH) => ast = Top.astIn

\* C8: at the return of every opcode evaluation the state is MATCH, EMPTY
\* or NOMATCH, and so is the state of the Result of a parse that returns.
StateTotality ==
  /\ AtReturn => sysData.state \in {MATCH, EMPTY, NOMATCH}
  /\ phase = "done" => result.state \in {MATCH, EMPTY, NOMATCH}
\* an RNM returns the state its callback stored in place of the state the
\* rule's opcodes returned
StateTotalityWitness ==
  /\ At(RNM, {"exit"}) /\ Top.op.index \in ruleCallbacks
  /\ Len(Top.kids) = 1 /\ sysData.state # Top.kids[1].state

\* C9: at the return of every opcode evaluation the phrase length is not
\* negative, it is 0 if the state is NOMATCH or EMPTY, and it is greater
\* than 0 if the state is MATCH.
StateLengthAgree ==
  AtReturn =>
    /\ sysData.phraseLength >= 0
    /\ sysData.state \in {NOMATCH, EMPTY} => sysData.phraseLength = 0
    /\ sysData.state = MATCH => sysData.phraseLength > 0

\* C10: at the return of every opcode evaluation made in forward mode at a
\* phrase index within the window, phrase index + phrase length is at most
\* the window length.
ForwardWindowSafety ==
  (AtReturn /\ ~inLookBehind /\ Top.phraseIndex \in 0 .. Len(chars)) =>
    Top.phraseIndex + sysData.phraseLength <= Len(chars)
\* an RNM after the start of the window returns the phrase its callback
\* supplied in place of the rule's opcodes, and the phrase ends at the
\* window end
ForwardWindowSafetyWitness ==
  /\ At(RNM, {"exit"}) /\ ~inLookBehind /\ Top.op.index \in ruleCallbacks
  /\ Top.kids = <<>> /\ Top.phraseIndex > 0 /\ sysData.state = MATCH
  /\ Top.phraseIndex + sysData.phraseLength = Len(chars)

\* the characters of the window from index i, n of them
Phrase(i, n) == SubSeq(chars, i + 1, i + n)
\* a phrase after ASCII case folding
FoldPhrase(p) == [k \in 1 .. Len(p) |-> Fold(p[k])]

\* C11: a back-referenced rule that returns MATCH or EMPTY outside
\* look-around leaves {phrase index, phrase length} of its phrase P in its
\* entry of the current frame.  A forward BKR at cursor c changes no frame
\* entry; it returns NOMATCH if the entry of its rule is null, EMPTY if the
\* saved length is 0, and otherwise MATCH with length |P| exactly when |P|
\* characters at c fit in the window and equal P (after case folding of
\* both when the BKR is case-insensitive), and NOMATCH if not.
\* S = A (\%sA / \A) succeeds on [x,x] and fails on [x,y].
BkrRoundTrip ==
  /\ (At(RNM, {"exit"}) /\ ~inLookAround /\ rules[Top.op.index + 1].isBkr
        /\ sysData.state \in Matched) =>
       sysData.backrefFrame[Top.op.index] = Ref(Top.phraseIndex, sysData.phraseLength)
  /\ (At(BKR, {"exit"}) /\ ~inLookBehind) =>
       LET c == Top.phraseIndex
           saved == sysData.backrefFrame[Top.op.index]
           n == saved.phraseLength
           P == Phrase(saved.phraseIndex, n)
           same == IF Top.op.insensitive
                   THEN FoldPhrase(Phrase(c, n)) = FoldPhrase(P)
                   ELSE Phrase(c, n) = P
       IN  /\ sysData.backrefFrame = Top.frameIn
           /\ IF ~saved.set THEN sysData.state = NOMATCH
              ELSE IF n = 0 THEN sysData.state = EMPTY /\ sysData.phraseLength = 0
              ELSE IF c + n <= Len(chars) /\ same
              THEN sysData.state = MATCH /\ sysData.phraseLength = n
              ELSE sysData.state = NOMATCH
  /\ (phase = "done" /\ Scenarios[grammar] = GBkr /\ chars = <<120, 120>>) => result.success
  /\ (phase = "done" /\ Scenarios[grammar] = GBkr /\ chars = <<120, 121>>) => ~result.success
\* a case-insensitive BKR matches a phrase that differs from the capture in
\* case only
BkrRoundTripWitness ==
  /\ At(BKR, {"exit"}) /\ ~inLookBehind /\ Top.op.insensitive
  /\ sysData.state = MATCH /\ sysData.phraseLength = 1
  /\ sysData.backrefFrame[Top.op.index].set
  /\ Char(Top.phraseIndex) # Char(sysData.backrefFrame[Top.op.index].phraseIndex)

\* C12: a parse of S = A B \A ; B = A "b" \A ; A = "x" / "y" that returns
\* succeeds on xybyx exactly when the parser is in parent-frame mode and on
\* xybyy exactly when it is in universal mode.  (The mode cannot change
\* while a parse runs, so it is read at the step that returns the Result.)
BkrScoping ==
  [][(phase = "exec" /\ phase' = "done" /\ Scenarios[grammar] = GScope) =>
       /\ chars = <<120, 121, 98, 121, 120>> => (result'.success <=> parentFrameMode)
       /\ chars = <<120, 121, 98, 121, 121>> => (result'.success <=> ~parentFrameMode)]_vars
\* a parse in universal mode has succeeded on xybyy
BkrScopingWitness ==
  /\ phase = "done" /\ Scenarios[grammar] = GScope /\ ~parentFrameMode
  /\ chars = <<120, 121, 98, 121, 121>> /\ result.success /\ result.nodeHits > 0

CapErrors == {"parser: maximum number of node hits exceeded",
              "parser: maximum parse tree depth exceeded"}
\* C13: with the limits N = limitNodeHits and D = limitTreeDepth, the step
\* that starts an opcode evaluation raises a cap error exactly when N
\* evaluations have been started before it or the evaluation is nested
\* D + 1 deep (the call stack of the evaluator holds D + 1 calls); while a
\* parse runs, the node hits never exceed N and the tree depth never
\* exceeds D; under the default limits no cap error is raised.
SafetyCaps ==
  [][/\ phase' = "exec" => nodeHits' <= limitNodeHits' /\ treeDepth' <= limitTreeDepth'
     /\ (Running /\ Top.pc = "call") =>
          ((phase' = "error" /\ error' \in CapErrors)
             <=> (nodeHits = limitNodeHits \/ Len(calls) = limitTreeDepth + 1))
     /\ (limitNodeHits' = Infinity /\ limitTreeDepth' = Infinity) => error' \notin CapErrors
    ]_vars
\* a parse that needs exactly N evaluations and depth D has returned, with
\* success
SafetyCapsWitness ==
  /\ phase = "done" /\ result.success
  /\ result.nodeHits = limitNodeHits /\ result.maxTreeDepth = limitTreeDepth

Max(S) == CHOOSE x \in S : \A y \in S : x >= y
\* C14: when the start rule returns, maxMatched becomes the largest value
\* of phrase index + phrase length over the evaluations that returned
\* outside look-around, the start rule's own included, and the Result
\* carries it; S = 2*3"a" on [a] returns success = false, matched = 0,
\* maxMatched = 1.
MaxMatchedIsLargest ==
  [][/\ (AtReturn /\ Len(calls) = 1) =>
          maxMatched' = Max(Top.ends \cup {Top.phraseIndex + sysData.phraseLength})
     /\ phase' = "done" => result'.maxMatched = maxMatched'
     /\ (phase' = "done" /\ Scenarios[grammar'] = GRep /\ chars' = <<97>>) =>
          ~result'.success /\ result'.matched = 0 /\ result'.maxMatched = 1
    ]_vars

\* C15: a parse call with a defective argument (an invalid grammar object, a
\* start rule name or index that addresses no rule, an input that is not an
\* array of character codes, a window outside the input, a UDT without a
\* callback) raises its error before any opcode is evaluated: an error of
\* the setup leaves the node-hit count 0 and no Result, and no opcode is
\* ever evaluated for a start rule index that addresses no rule or on
\* characters that are not character codes.
SetupErrorsPrecedeExecution ==
  /\ (phase = "error" /\ error \in SetupErrors) => nodeHits = 0 /\ result = NoResult
  /\ nodeHits > 0 =>
       /\ opcodes # NegativeStartOpcodes
       /\ \A i \in 1 .. Len(chars) : chars[i] # NonNumber

\* opRNM is about to invoke the syntax callback of its rule
AtCallback == At(RNM, {"body", "resume"}) /\ Top.op.index \in ruleCallbacks
\* sysData as the callback that makes the assignments cb leaves it
AfterCallback(cb) ==
  callback(cb, IF Top.pc = "body" THEN rnmBegin(Top, sysData, ast).sysData ELSE sysData)
\* sd breaks the contract of a rule callback invoked by the top frame
ContractViolation(sd) ==
  \/ Top.pc = "resume" /\ sd.state = ACTIVE
  \/ sd.phraseLength > Len(chars) - Top.phraseIndex
  \/ sd.state \notin {ACTIVE, MATCH, EMPTY, NOMATCH}

\* C16: a callback contract violation is fatal.  Whatever a rule callback
\* does, if it leaves ACTIVE in its post-phase, a phrase length larger than
\* the characters remaining in the window or a state that is none of
\* ACTIVE, MATCH, EMPTY, NOMATCH, then the validation throws; a callback
\* invocation after which the parse goes on has left none of these; an
\* error leaves no Result.  A parse with a grammar that has UDTs never
\* returns a Result.
CallbackViolationsFatal ==
  [][/\ AtCallback =>
          /\ \A cb \in CallbackResults :
               ContractViolation(AfterCallback(cb)) =>
                 validateRnmCallbackResult(AfterCallback(cb),
                                           Len(chars) - Top.phraseIndex,
                                           Top.pc = "body").thrown
          /\ phase' = "exec" => ~ContractViolation(sysData')
          /\ phase' = "error" => error' = "opRNM: callback function error"
     /\ phase' = "error" => result' = NoResult
     /\ phase' = "done" => Scenarios[grammar'].udts = 0
    ]_vars
\* a parse has ended with the error of a rule callback's contract violation
\* after evaluating opcodes
CallbackViolationsFatalWitness ==
  /\ phase = "error" /\ error = "opRNM: callback function error"
  /\ Scenarios[grammar] = GCallback /\ nodeHits > 1 /\ result = NoResult

\* what opRNM's validation makes of the callback's assignments cb
Validated(cb) ==
  validateRnmCallbackResult(AfterCallback(cb), Len(chars) - Top.phraseIndex,
                            Top.pc = "body")

\* C17: the protocol of a rule callback.  The pre-phase invocation finds the
\* state ACTIVE and no opcode of the rule evaluated; if it leaves ACTIVE,
\* opRNM calls opExecute(0, phraseIndex) on the rule's opcodes and, when
\* that returns, invokes the callback again, and any validated result of
\* this post-phase is the RNM's result; if the pre-phase sets MATCH, EMPTY
\* or NOMATCH, opRNM returns at once with the validated result of the
\* callback, no opcode of the rule evaluated.
CallbackProtocol ==
  [][/\ (AtCallback /\ Top.pc = "body") =>
          /\ sysData.state = ACTIVE /\ Top.kids = <<>>
          /\ phase' = "exec" =>
               IF sysData'.state = ACTIVE
               THEN /\ Len(calls') = Len(calls) + 1
                    /\ calls'[Len(calls)].pc = "resume"
                    /\ calls'[Len(calls')].pc = "call"
                    /\ calls'[Len(calls')].opIndex = 0
                    /\ calls'[Len(calls')].phraseIndex = Top.phraseIndex
                    /\ calls'[Len(calls')].op = rules[Top.op.index + 1].opcodes[1]
                    /\ opcodes' = Top.op.index
               ELSE /\ Len(calls') = Len(calls)
                    /\ calls'[Len(calls)].pc = "exit"
                    /\ calls'[Len(calls)].kids = <<>>
                    /\ \E cb \in CallbackResults :
                         /\ cb.set /\ cb.state \in {MATCH, EMPTY, NOMATCH}
                         /\ ~Validated(cb).thrown
                         /\ sysData'.state = Validated(cb).sysData.state
                         /\ sysData'.phraseLength = Validated(cb).sysData.phraseLength
     /\ (AtCallback /\ Top.pc = "resume") =>
          /\ Len(Top.kids) = 1 /\ Top.kids[1].opIndex = 0
          /\ phase' = "exec" =>
               /\ Len(calls') = Len(calls)
               /\ calls'[Len(calls)].pc = "exit"
               /\ \E cb \in CallbackResults :
                    /\ ~Validated(cb).thrown
                    /\ sysData'.state = Validated(cb).sysData.state
                    /\ sysData'.phraseLength = Validated(cb).sysData.phraseLength
     /\ (At(RNM, {"exit"}) /\ Top.op.index \in ruleCallbacks /\ Top.kids = <<>>) =>
          sysData.state \in {MATCH, EMPTY, NOMATCH}
    ]_vars
\* the post-phase of a callback has overwritten the NOMATCH of its rule's
\* opcodes with a MATCH
CallbackProtocolWitness ==
  /\ At(RNM, {"exit"}) /\ Top.op.index \in ruleCallbacks
  /\ Len(Top.kids) = 1 /\ Top.kids[1].state = NOMATCH
  /\ sysData.state = MATCH

\* C18: for a grammar that has UDTs, each with a callback, the parse gets
\* to evaluate its opcodes, the UDT opcodes by their callbacks: a parse call
\* for such a grammar fails before the evaluation only for a defective
\* argument.
UdtEvaluation ==
  [][(/\ phase = "parse" /\ phase' = "error"
      /\ Scenarios[grammar'].udts > 0
      /\ initializeCallbacksError(grammar') = "") => error' \in ArgumentErrors
    ]_vars

\* the text of length n that ends at cursor c matches op's pattern
MatchesBehind(op, c, n) ==
  /\ c - n >= 0
  /\ CASE op.type = TRG -> op.min <= Char(c - 1) /\ Char(c - 1) <= op.max
       [] op.type = TBS -> \A k \in 1 .. n : Char(c - n + k - 1) = op.string[k]
       [] op.type = TLS -> \A k \in 1 .. n : Fold(Char(c - n + k - 1)) = op.string[k]

\* C19: in look-behind mode a terminal matches the text that ends at the
\* cursor: TRG at cursor c returns MATCH with phrase length 1 when
\* input[c-1] is in its range, TBS and TLS of length len return MATCH with
\* phrase length len (TLS of length 0: EMPTY) when input[c-len..c) is their
\* string, and each returns NOMATCH with phrase length 0 otherwise.
LookBehindTerminals ==
  [][\A type \in {TRG, TBS, TLS} :
       (At(type, {"body"}) /\ inLookBehind) =>
         LET n == IF type = TRG THEN 1 ELSE Len(Top.op.string)
         IN  /\ phase' = "exec"
             /\ IF MatchesBehind(Top.op, Top.phraseIndex, n)
                THEN /\ sysData'.state = IF n = 0 THEN EMPTY ELSE MATCH
                     /\ sysData'.phraseLength = n
                ELSE /\ sysData'.state = NOMATCH
                     /\ sysData'.phraseLength = 0
    ]_vars

\* the input from the window's first character to its own end
WideChars == chars \o inputRest
\* op's pattern matches the input at cursor c, the window's end set aside
MatchesWide(op, c) ==
  LET n == IF op.type = TRG THEN 1 ELSE Len(op.string)
  IN  /\ c + n <= Len(WideChars)
      /\ CASE op.type = TRG -> op.min <= WideChars[c + 1] /\ WideChars[c + 1] <= op.max
           [] op.type = TBS -> \A k \in 1 .. n : WideChars[c + k] = op.string[k]
           [] op.type = TLS -> \A k \in 1 .. n : Fold(WideChars[c + k]) = op.string[k]

\* C20: while the child of AND or NOT is evaluated the window ends at the
\* end of the full input: a terminal evaluated in look-ahead matches exactly
\* when its pattern is in the input at the cursor, beyond the end of the
\* sub-window too; outside look-around no phrase ends beyond the sub-window.
WindowWidening ==
  /\ \A type \in {TRG, TBS, TLS} :
       (At(type, {"exit"}) /\ inLookAround /\ ~inLookBehind) =>
         (sysData.state \in {MATCH, EMPTY} <=> MatchesWide(Top.op, Top.phraseIndex))
  /\ (AtReturn /\ ~inLookAround) => Top.phraseIndex + sysData.phraseLength <= Len(chars)

\* C21: parseSubstring parses exactly the window, and what it does is what
\* parse does for the slice: whenever a call has got to evaluate opcodes or
\* has returned a Result for the window `chars`, parse applied to the slice
\* `chars` is not rejected by initializeInputChars, and the Result's length
\* is the window's.
SubstringAsParseOfSlice ==
  /\ phase \in {"exec", "done"} => initializeInputCharsError(chars, 0, Len(chars)) = ""
  /\ phase = "done" => result.length = Len(chars)

\* the callback invocation c was a pre-phase call that returned skip-subtree
SkipAt(c) == c.state = SEM_PRE /\ c.ret = SEM_SKIP
\* record j lies in the subtree that the invocation c skipped: behind the
\* down record, up to its matching up record
Skipped(c, j) == SkipAt(c) /\ c.index < j /\ j <= ast.records[c.index + 1].thatIndex

TraceRetained ==
  trace.state = "ready" =>
    LET M == Len(traceLog)
        N == trace.maxListSize
        kept == forEach(trace)
    IN  /\ M = trace.filteredRecords
        /\ Len(kept) = Min({M, N})
        /\ \A k \in 1 .. Len(kept) :
             LET line == trace.lines[kept[k].listIndex]
                 made == traceLog[M - Len(kept) + k]
             IN  /\ kept[k].itemIndex = M - Len(kept) + k - 1
                 /\ line.thisLine = kept[k].itemIndex
                 /\ line.dirUp = made.dirUp
                 /\ line.opcode = made.opcode
                 /\ line.depth = made.depth
                 /\ line.dirUp => line.thatLine = made.thatLine /\ line.thatLine < line.thisLine
                 /\ ~line.dirUp => line.thatLine = Undefined \/ line.thatLine > line.thisLine

\* C23: with capacity N, when M eligible records have been made the trace
\* retains exactly the last min(M, N) of them in recording order; a retained
\* up record's paired line is smaller than its own, a retained down record's
\* is larger or absent; an up record whose down record has been evicted
\* changes no record but the one it replaces.
TraceRing ==
  [][/\ TraceRetained'
     /\ (/\ trace.state = "ready" /\ trace'.filteredRecords = trace.filteredRecords + 1
         /\ traceLog'[Len(traceLog')].dirUp
         /\ trace.itemIndex - traceLog'[Len(traceLog')].thatLine >= trace.maxListSize) =>
          \A index \in DOMAIN trace.lines :
            index # increment(trace) => trace'.lines[index] = trace.lines[index]
    ]_vars
\* six records have been made with capacity 2, the last of them the up
\* record of line 0, which had been evicted
TraceRingWitness ==
  /\ trace.state = "ready" /\ trace.maxListSize = 2 /\ traceCalls = <<>>
  /\ Len(traceLog) = 6
  /\ traceLog[6].dirUp /\ traceLog[6].thatLine = 0
  /\ trace.lines[0].thisLine = 4 /\ trace.lines[1].thisLine = 5

\* C24: a trace filter with a name that is no operator name (nor <ALL> or
\* <NONE>), or with a name that is no rule or UDT name of the grammar (nor
\* <all> or <none>), makes the initialization fail whatever other names the
\* filter has: a trace object that has been initialized for a parse has
\* valid names only.
FilterValidation ==
  trace.state = "ready" =>
    /\ \A n \in trace.operators : n \in {"<ALL>", "<NONE>"} \/ operatorOf(n) # 0
    /\ \A n \in trace.rules : n \in {"<all>", "<none>"} \/ ruleIndexOf(n) >= 0

RECURSIVE SumTotals(_, _)
\* the sum of the total counters of the operator types in T
SumTotals(f, T) ==
  IF T = {} THEN 0
  ELSE LET t == CHOOSE x \in T : TRUE
       IN  f[t].total + SumTotals(f, T \ {t})
Balanced(stat) == stat.total = stat.empty + stat.match + stat.nomatch

\* C25: with a statistics object attached every opcode evaluation, of BKR,
\* BKA and BKN too, is counted: no evaluation fails in stats.collect, every
\* counter satisfies total = empty + match + nomatch, the counters of the
\* operator types add up to the overall counter, those of the rules to the
\* counter of RNM, and when the parse has returned the overall total is
\* the node-hit count.
StatsComplete ==
  /\ stats.state # "error"
  /\ stats.state = "ready" =>
       /\ Balanced(stats.totals)
       /\ \A t \in DOMAIN stats.stats : Balanced(stats.stats[t])
       /\ \A i \in DOMAIN stats.ruleStats : Balanced(stats.ruleStats[i])
       /\ SumTotals(stats.stats, DOMAIN stats.stats) = stats.totals.total
       /\ SumTotals(stats.ruleStats, DOMAIN stats.ruleStats) = stats.stats[RNM].total
       /\ stats.totals.total + Len(statsCalls.calls) = statsCalls.nodeHits

\* C26: the grammar is read-only: when a parse call has returned or raised,
\* with callbacks that call evaluateRule or evaluateUdt, every rule's opcode
\* list is what it was before the call.
GrammarReadOnly ==
  evaluation.state \in {"returned", "raised"} =>
    \A t \in 0 .. Len(EvalRules) - 1 : evaluation.lists[t] = EvalOpcodes(t)

\* what a parse call starts the evaluation from, given its grammar and input
FreshStart ==
  /\ nodeHits = 0 /\ treeDepth = 0 /\ maxTreeDepth = 0 /\ maxMatched = 0
  /\ lookAround = <<>>
  /\ result = NoResult /\ translation = NoTranslation
  /\ ast = IF Scenarios[grammar].ast THEN astInit(grammar) ELSE NoAst
  /\ sysData = [NoSysData EXCEPT !.backrefFrame = [r \in BkrRules(grammar) |-> NullRef]]
  /\ Len(calls) = 1 /\ calls[1].pc = "call" /\ calls[1].op.type = RNM
  /\ calls[1].astIn = ast /\ calls[1].lookIn = <<>>
\* the Result of parsing "aaa" with the grammar S = 2*3"a"
ResultRepAAA ==
  [success |-> TRUE, state |-> MATCH, length |-> 3, matched |-> 3,
   maxMatched |-> 3, maxTreeDepth |-> 3, nodeHits |-> 5]

\* C27: a parser object is re-used: whatever the earlier calls on it did,
\* a call that aborted inside look-around at non-zero tree depth included,
\* the evaluation of a parse call starts from node hits, tree depth,
\* max-matched 0, an empty look-around stack and a fresh AST and sysData,
\* which only the call's grammar and input determine, and the Result of
\* parsing "aaa" with S = 2*3"a" is the same after every earlier call.
ParserReuse ==
  /\ [][(phase = "parse" /\ phase' = "exec") => FreshStart']_vars
  /\ [](phase = "done" /\ Scenarios[grammar] = GRep /\ chars = <<97, 97, 97>>
          => result = ResultRepAAA)
\* a parse call has returned a Result on a parser object whose previous
\* call aborted inside look-around below the start rule
ParserReuseWitness ==
  /\ phase = "done" /\ previousCall = "aborted"
  /\ Scenarios[grammar] = GRep /\ chars = <<97, 97, 97>>

\* the string of the TLS or TBS operator that has just been evaluated in
\* forward mode, and the input characters at its cursor
TerminalDone(type) == At(type, {"exit"}) /\ ~inLookBehind
LiteralFits == Top.phraseIndex + Len(Top.op.string) <= Len(chars)
LowerCase(code) == IF code \in 65 .. 90 THEN code + 32 ELSE code
LiteralMatched == sysData.state = MATCH /\ sysData.phraseLength = Len(Top.op.string)

\* the eight case permutations of abc
CasePermutations == {<<a, b, c>> : a \in {97, 65}, b \in {98, 66}, c \in {99, 67}}

\* C28: a forward TLS returns MATCH with the literal's length exactly when
\* every input character at cursor+i, 32 added to the ones in 'A'..'Z', is
\* byte i of the operator; otherwise it returns NOMATCH; an empty TLS
\* returns EMPTY at every position; a TBS returns MATCH exactly when every
\* input character equals byte i.  With S = "AbC" / (%d65 "") / "" the
\* inputs of length 3 that parse are the eight case permutations of abc.
TlsCaseFolding ==
  /\ phase = "done" /\ Scenarios[grammar] = GTls /\ Len(chars) = 3 =>
       (result.success <=> chars \in CasePermutations)
  /\ TerminalDone(TLS) /\ Top.op.string = <<>> =>
       sysData.state = EMPTY /\ sysData.phraseLength = 0
  /\ TerminalDone(TLS) /\ Top.op.string # <<>> =>
       /\ sysData.state \in {MATCH, NOMATCH}
       /\ LiteralMatched <=>
            /\ LiteralFits
            /\ \A i \in 1 .. Len(Top.op.string) :
                 LowerCase(Char(Top.phraseIndex + i - 1)) = Top.op.string[i]
  /\ TerminalDone(TBS) =>
       /\ sysData.state \in {MATCH, NOMATCH}
       /\ LiteralMatched <=>
            /\ LiteralFits
            /\ \A i \in 1 .. Len(Top.op.string) :
                 Char(Top.phraseIndex + i - 1) = Top.op.string[i]
\* the opcode for "AbC" has matched the input aBc
TlsCaseFoldingWitness ==
  /\ TerminalDone(TLS) /\ Top.op.string = <<97, 98, 99>>
  /\ chars = <<97, 66, 99>> /\ LiteralMatched

\* opREP, in forward mode, has its child's result and counts a repetition
RepAdvances == At(REP, {"resume"}) /\ ~inLookBehind /\ sysData.state \notin {NOMATCH, EMPTY}

\* C29: REP is monotone: every repetition a forward REP counts is a MATCH
\* of its child that advances the cursor by at least one character, so the
\* child is invoked at strictly increasing positions.
RepMonotone ==
  RepAdvances => sysData.state = MATCH /\ sysData.phraseLength >= 1

\* the state a terminal operator, or an ALT of terminal operators, returns
\* when it is evaluated at cursor c (ACTIVE for the other operators)
StateAt(ops, k, c) ==
  LET op == ops[k + 1]
      at(j) == terminal(ops[j + 1], c, sysData).state
  IN  IF op.type \in {TLS, TBS, TRG} THEN at(k)
      ELSE IF op.type = ALT /\ \A n \in 1 .. Len(op.children) :
                                 ops[op.children[n] + 1].type \in {TLS, TBS, TRG}
      THEN IF \E n \in 1 .. Len(op.children) : at(op.children[n]) # NOMATCH
           THEN at(op.children[Min({n \in 1 .. Len(op.children) :
                                        at(op.children[n]) # NOMATCH})])
           ELSE NOMATCH
      ELSE ACTIVE
\* a forward REP has returned, and its child returns EMPTY at the cursor
\* where the repetition stopped
RepStopsAtEmpty ==
  /\ At(REP, {"exit"}) /\ ~inLookBehind
  /\ Top.charIndex \in 0 .. Len(chars)
  /\ StateAt(OpcodeTable(opcodes), Top.opIndex + 1, Top.charIndex) = EMPTY

\* C30: REP succeeds when its child matches the empty phrase where the
\* repetition stops, at every cursor position up to the end of the window
\* and whatever min is: 1*("a" / "") returns EMPTY or MATCH.
RepEmptySucceeds == RepStopsAtEmpty => sysData.state \in {EMPTY, MATCH}

\* opExecute is entered for a child of a CAT that is evaluated in look-behind
\* mode, with no cap reached
CatBehindChild ==
  /\ Running /\ Top.pc = "call" /\ inLookBehind
  /\ Len(calls) > 1 /\ calls[Len(calls) - 1].op.type = CAT
  /\ ~nodeHitsExceeded(nodeHits + 1, limitNodeHits)
  /\ ~treeDepthExceeded(treeDepth + 1, maxTreeDepth, limitTreeDepth)

\* C31: CAT, REP, TRG, TBS, TLS and BKR are evaluated right to left exactly
\* when the top of the look-around stack is BKA or BKN; in behind mode CAT
\* evaluates its children from the last to the first, each at the cursor
\* the children after it have moved back, and completes: the evaluation of
\* a child of such a CAT begins at its cursor and raises no error.
DirectionDispatch ==
  [][CatBehindChild =>
       /\ phase' = "exec"
       /\ Top'.pc = "body"
       /\ Top'.phraseIndex
            = calls[Len(calls) - 1].phraseIndex - calls[Len(calls) - 1].matched
    ]_vars

RECURSIVE OpenDowns(_, _)
\* the indices, in order, of the down records among the first n records
\* that have no paired up record
OpenDowns(recs, n) ==
  IF n = 0 THEN <<>>
  ELSE LET r == recs[n]
           before == OpenDowns(recs, n - 1)
       IN  IF r.state = SEM_PRE /\ r.thatIndex = Undefined
           THEN Append(before, n - 1) ELSE before

\* C32: whatever down, up, getLength and setLength calls the evaluator has
\* made, the working stack holds exactly the indices of the down records
\* that have no paired up record, in order, and its depth is the depth
\* stored in the last record (0 when there is no record).
AstStackRestored ==
  ast.attached =>
    /\ ast.stack = OpenDowns(ast.records, Len(ast.records))
    /\ Len(ast.stack) = IF Len(ast.records) = 0 THEN 0
                        ELSE ast.records[Len(ast.records)].stack
\* the RNM of a node rule has returned NOMATCH, so setLength has dropped its
\* down record, inside a node that is still open
AstStackRestoredWitness ==
  /\ At(RNM, {"exit"}) /\ Top.astDefined /\ Top.notLookAround
  /\ sysData.state = NOMATCH
  /\ Len(ast.records) = Top.astLength
  /\ ast.stack # <<>>

\* records d and u (indices from 0) are a down record and its up record
Paired(recs, d, u) ==
  /\ d < u
  /\ recs[d + 1].state = SEM_PRE /\ recs[u + 1].state = SEM_POST
  /\ recs[d + 1].thatIndex = u /\ recs[u + 1].thatIndex = d
  /\ recs[d + 1].callbackIndex = recs[u + 1].callbackIndex
  /\ recs[d + 1].phraseIndex = recs[u + 1].phraseIndex
  /\ recs[d + 1].phraseLength = recs[u + 1].phraseLength
\* every record is one of a pair, and the pairs are nested
WellNested(recs) ==
  /\ \A i \in 0 .. Len(recs) - 1 :
       /\ recs[i + 1].thisIndex = i
       /\ recs[i + 1].thatIndex \in 0 .. Len(recs) - 1
       /\ IF recs[i + 1].state = SEM_PRE
          THEN Paired(recs, i, recs[i + 1].thatIndex)
          ELSE Paired(recs, recs[i + 1].thatIndex, i)
  /\ \A d \in 0 .. Len(recs) - 1 :
       recs[d + 1].state = SEM_PRE =>
         \A k \in d + 1 .. recs[d + 1].thatIndex - 1 :
           recs[k + 1].thatIndex \in d + 1 .. recs[d + 1].thatIndex - 1

\* C33: after a parse that returns, the AST records are well nested: every
\* down record has a later up record, each naming the other in thatIndex,
\* with the same node, phrase index and phrase length, the records between
\* them are complete pairs, and the working stack is empty.
AstPairing ==
  phase = "done" /\ ast.attached => WellNested(ast.records) /\ ast.stack = <<>>
\* a parse has returned with a node nested in another node
AstPairingWitness ==
  /\ phase = "done" /\ ast.attached /\ Len(ast.records) >= 4
  /\ \E d \in 1 .. Len(ast.records) - 1 :
       /\ ast.records[d + 1].state = SEM_PRE
       /\ ast.records[d + 1].thatIndex < Len(ast.records) - 1


\* C34: the push made on entering AND, NOT, BKA or BKN is matched by a pop
\* on every exit path: the look-around stack when a predicate is left is
\* the stack when it was entered, and the stack is empty after every parse
\* call, whether it returned a Result or raised an error.
LookAroundDiscipline ==
  /\ (Running /\ Top.pc = "exit" /\ Top.op.type \in {AND, NOT, BKA, BKN})
       => lookAround = Top.lookIn
  /\ phase \in {"done", "error"} => lookAround = <<>>


\* C35: in parent-frame mode an RNM evaluated outside look-around runs its
\* rule's opcodes against a frame with no captures, and when it returns
\* the frame of its entry is current again, changed at most in the entry of
\* its rule, which holds {phrase index, phrase length} when the rule is
\* back-referenced and returned MATCH or EMPTY.
ParentFrameRestore ==
  /\ (At(RNM, {"exit"}) /\ Top.notLookAround /\ parentFrameMode) =>
       sysData.backrefFrame =
         IF rules[Top.op.index + 1].isBkr /\ sysData.state \in {MATCH, EMPTY}
         THEN [Top.frameIn EXCEPT
                 ![Top.op.index] = Ref(Top.phraseIndex, sysData.phraseLength)]
         ELSE Top.frameIn
  /\ (Running /\ Len(calls) > 1 /\ parentFrameMode
        /\ calls[Len(calls) - 1].op.type = RNM
        /\ calls[Len(calls) - 1].notLookAround) =>
       Top.frameIn = [r \in BkrRules(grammar) |-> NullRef]
\* B = A "b" \A has matched yby, capturing y for A, and has returned to S,
\* whose frame holds the x that S captured for A
ParentFrameRestoreWitness ==
  /\ At(RNM, {"exit"}) /\ Top.notLookAround /\ parentFrameMode
  /\ Scenarios[grammar] = GScope /\ Top.op.index = 1
  /\ sysData.state = MATCH /\ sysData.phraseLength = 3
  /\ sysData.backrefFrame[2] = Ref(0, 1)


\* C36: in universal mode an entry of the back-reference frame that is set
\* stays set for the rest of the parse, whatever CAT, REP or ALT branch
\* fails afterwards, and an entry changes only in the step in which an RNM
\* of its rule, evaluated outside look-around, returns MATCH or EMPTY: it
\* then holds that match.
CapturePersists ==
  [][(phase = "exec" /\ ~parentFrameMode) =>
       \A r \in DOMAIN sysData.backrefFrame :
         LET old == sysData.backrefFrame[r]
             new == sysData'.backrefFrame[r]
         IN  /\ old.set => new.set
             /\ new # old =>
                  /\ (At(RNM, {"exit"}))'
                  /\ Top'.op.index = r /\ Top'.notLookAround
                  /\ sysData'.state \in {MATCH, EMPTY}
                  /\ new = Ref(Top'.phraseIndex, sysData'.phraseLength)]_vars
\* in S = (A "b") / \A the branch A "b" has failed after A captured the
\* first character, and \A of the second branch matches that capture
CapturePersistsWitness ==
  /\ At(BKR, {"exit"}) /\ Scenarios[grammar] = GBacktrack /\ ~parentFrameMode
  /\ sysData.state = MATCH /\ Top.phraseIndex = 0
  /\ sysData.backrefFrame[1] = Ref(0, 1)


\* C37: when opRNM is about to call the callback of its rule for the
\* post-phase, sysData.lookBehind is true exactly when the top of the
\* look-around stack is BKA or BKN.  (For the pre-phase and for a UDT the
\* flag is assigned in the statement before the call.)
CallbackLookBehind ==
  (At(RNM, {"resume"}) /\ Top.op.index \in ruleCallbacks) =>
    (sysData.lookBehind <=> inLookBehind)


\* C38: a call of setMaxTreeDepth or setMaxNodeHits that raises an error
\* leaves the configured cap as it was, so that a step which changes a cap
\* is an accepted call and stores a value greater than 0.
RejectedCapKept ==
  [][/\ limitTreeDepth' # limitTreeDepth => limitTreeDepth' > 0
     /\ limitNodeHits' # limitNodeHits => limitNodeHits' > 0]_vars


\* C39: the Result of every parse that returns has
\* 0 <= matched <= maxMatched <= length.
ResultBounds ==
  phase = "done" =>
    /\ 0 <= result.matched
    /\ result.matched <= result.maxMatched
    /\ result.maxMatched <= result.length


\* C40: parse(grammar, startRule, input) with an input of length 0 is not
\* rejected by initializeInputChars: the step of such a call does not raise
\* "input beginning index out of range" (nor another window error) but goes
\* on to evaluate the start rule on the empty window.
EmptyInputParsed ==
  [][\A g \in 1 .. Len(Scenarios) :
       \A start \in StartRules(Len(Scenarios[g].rules)) :
         parse(g, start, <<>>) =>
           ~(phase' = "error" /\ error' = initializeInputCharsError(<<>>, 0, 0))]_vars

============================================================================
